---------------------------- MODULE Spec2Model ----------------------------
(***************************************************************************)
(* A model of go-ddddocr (src/ddddocr/ddddocr.go): the range selector and  *)
(* the greedy sequence decoder of an OCR instance, the detection           *)
(* postprocessor (anchor-grid decode and suppression) and computeIoU.      *)
(*                                                                         *)
(* Go slices are 0-indexed; TLA+ sequences are 1-indexed.  At(s, i) reads  *)
(* Go's s[i].  float32 scores are modelled by integers with the same       *)
(* order; a ratio or an IoU is a pair of integers compared by cross        *)
(* multiplication.                                                         *)
(***************************************************************************)
EXTENDS Integers, Sequences, FiniteSets, TLC

VARIABLES
    \* ---- the DdddOcr instance (struct fields, ddddocr.go:214-240)
    charsets,        \* d.charsets: the symbols, index 0 the blank
    isDetMode,       \* d.isDetMode
    allowedIndices,  \* d.allowedIndices: [nil, elems]
    lastCall,        \* history: the last call that wrote allowedIndices
    \* ---- one Classification call on the instance
    pc,              \* "idle" | "decoding" | "returned"
    shape,           \* the output tensor's shape, <<T, C>> or <<T, B, C>> or other
    t,               \* the decoder's loop counter
    lastIdx,         \* the decoder's lastIdx
    sb,              \* the decoder's strings.Builder, a sequence of symbols
    emitted,         \* history: the class index behind each symbol of sb
    path,            \* history: the class index selected at each timestep
    row,             \* the scores of the timestep scanned last (batch 0)
    reads,           \* history: the tensor offsets read at that timestep
    ret,             \* what the call returned: [text, err]
    \* ---- one multiclassNMS call
    nmsPc,           \* "start" | "done"
    nmsIn,           \* its arguments: [preds, ratio, origW, origH, nmsThr, scoreThr]
    nmsDets,         \* dets after sort.Slice: [box, score, src], src the anchor
    nmsKept,         \* history: the positions of dets that were accepted
    nmsResult,       \* the boxes returned
    \* ---- one Detection call
    detPc,           \* "start" | "done"
    detIn,           \* [outputs, origW, origH]: the tensor and the image size
    detRet,          \* what the call returned: [boxes, err, panic]
    \* ---- one computeIoU call
    iouPc,           \* "start" | "done"
    iouIn,           \* [a, b]: the two boxes
    iouRet,          \* the IoU returned, a fraction [n, d]
    \* ---- one cannyEdgeDetect call
    cannyPc,         \* "start" | "suppress" | "threshold" | "linking" | "done"
    cannyIn,         \* the image: rows of grey pixels (r = g = b)
    cannyMag,        \* magnitude, by [y][x]
    cannySup,        \* suppressed, by [y][x]
    cannyEdge,       \* edge: 0 none, 1 weak, 2 strong
    cannyResult,     \* result: the edge map, by [y][x]
    cannyPasses,     \* history: passes of the linking loop run so far
    \* ---- one templateMatchRGB call
    tmPc,            \* "start" | "done"
    tmIn,            \* [background, template]: rows of grey pixels
    tmRet,           \* the point returned, [X, Y]
    \* ---- one SlideMatch call
    smPc,            \* "start" | "retry" | "done"
    smIn,            \* [target, background, simpleTarget]
    smCalls,         \* history: simpleTarget of each SlideMatch call made
    smExtract,       \* history: what getTarget returned, <<>> if not called
    smRet,           \* what the call returned: [res, err]
    \* ---- one SlideComparison call
    gapPc,           \* "start" | "done"
    gapIn,           \* [target, background]: the two images
    gapDiff,         \* history: the difference image
    gapScan,         \* history: what findGapPython did: [startX, startY, scanned, captures]
    gapRet,          \* what the call returned: [res, err]
    \* ---- one ClassificationProbability call
    probPc,          \* "off" | "idle" | "done"
    probIn,          \* [outcome, tensor]: what happened before the decoder, the output
    probReads,       \* history: the offsets the decoder read at each timestep
    probRet,         \* what the call returned: [res, err, panic]
    \* ---- one softmax call
    sfPc,            \* "off" | "start" | "done"
    sfIn,            \* input: the score row
    sfRet,           \* output: the probability row
    \* ---- one demoPostprocess call
    postPc,          \* "off" | "start" | "done"
    postIn,          \* [outputs, imgSize]
    postRet,         \* [panic, numClasses, predictions]
    \* ---- the runtime environment and the instances made by New
    lifePc,          \* "off" | "run"
    initOnce,        \* initOnce: TRUE once Do has run its function
    onnxRuntimePath, \* onnxRuntimePath: "" or the path set
    envInits,        \* history: calls of ort.InitializeEnvironment made
    envErr,          \* history: TRUE when InitializeEnvironment returned an error
    insts,           \* the instances New has returned, each [isOcrMode, isDetMode,
                     \* session, options, detSession, detOptions]
    newRets,         \* history: what each New call returned: [opts, err, inst]
    opRet,           \* the last method call: [op, inst, check, ran]
    \* ---- an OcrPool and the goroutines of testInstancePool
    poolPc,          \* "off" | "run" | "closed"
    poolChan,        \* p.pool: the instances in the channel's buffer, oldest first
    workers,         \* by goroutine: [pc, ocr, j], ocr = 0 when it holds none
    poolCloses,      \* history: by instance, the Close calls made on it
    \* ---- goroutines that run the core functions at the same time
    concPc,          \* "off" | "run"
    concIn,          \* the goroutines' own inputs: [tensor, call, nms, gap]
    concHeap,        \* by instance ("A", "B"): [charsets, allowedIndices]
    concHeap0,       \* history: concHeap when the goroutines started
    procs,           \* by goroutine: [pc, local, ret], pc "start" | "run" | "done"
    accesses         \* history: <<goroutine, location, "r" | "w">>

ocrVars == <<charsets, isDetMode, allowedIndices, lastCall,
             pc, shape, t, lastIdx, sb, emitted, path, row, reads, ret>>

nmsVars == <<nmsPc, nmsIn, nmsDets, nmsKept, nmsResult>>

detVars == <<detPc, detIn, detRet>>

iouVars == <<iouPc, iouIn, iouRet>>

cannyVars == <<cannyPc, cannyIn, cannyMag, cannySup, cannyEdge, cannyResult, cannyPasses>>

\* the variables of the sliding-puzzle functions
tmVars == <<tmPc, tmIn, tmRet>>

smVars == <<smPc, smIn, smCalls, smExtract, smRet>>

gapVars == <<gapPc, gapIn, gapDiff, gapScan, gapRet>>

slideVars == <<cannyVars, tmVars, smVars, gapVars>>

probVars == <<probPc, probIn, probReads, probRet>>

sfVars == <<sfPc, sfIn, sfRet>>

\* the variables of the calls modelled on their own and of the instances' life cycle
postVars == <<postPc, postIn, postRet>>

lifeVars == <<lifePc, initOnce, onnxRuntimePath, envInits, envErr, insts, newRets, opRet>>

\* the variables of the instances' life cycle and of concurrent use
poolVars == <<poolPc, poolChan, workers, poolCloses>>

concVars == <<concPc, concIn, concHeap, concHeap0, procs, accesses>>

lateVars == <<lifeVars, poolVars, concVars>>

restVars == <<sfVars, postVars, lateVars>>

\* the variables of the OCR instance, detection, the sliding-puzzle functions
\* and ClassificationProbability
coreVars == <<ocrVars, nmsVars, detVars, iouVars, slideVars, probVars>>

notLifeVars == <<coreVars, sfVars, postVars, poolVars, concVars>>

notPoolVars == <<coreVars, sfVars, postVars, lifeVars, concVars>>

notConcVars == <<coreVars, sfVars, postVars, lifeVars, poolVars>>

notCannyVars == <<ocrVars, nmsVars, detVars, iouVars, tmVars, smVars, gapVars, probVars, restVars>>

notTmVars == <<ocrVars, nmsVars, detVars, iouVars, cannyVars, smVars, gapVars, probVars, restVars>>

notSmVars == <<ocrVars, nmsVars, detVars, iouVars, cannyVars, tmVars, gapVars, probVars, restVars>>

notGapVars == <<ocrVars, nmsVars, detVars, iouVars, cannyVars, tmVars, smVars, probVars, restVars>>

notOcrVars == <<nmsVars, detVars, iouVars, slideVars, probVars, restVars>>

vars == <<ocrVars, nmsVars, detVars, iouVars, slideVars, probVars, restVars>>

-----------------------------------------------------------------------------
(* Bounds of the model *)

\* the longest custom range string handed to SetRanges
MaxChars == 2
\* the most timesteps of a score tensor
MaxT == 4
\* the most predictions handed to multiclassNMS
MaxPreds == 3
\* the largest coordinate of the boxes handed to computeIoU
MaxCoord == 2
\* the side of the detector's square input (416 in Detection), scaled down
InputSize == 16
\* the most rows of the images handed to cannyEdgeDetect
MaxRows == 5
\* the widest background handed to templateMatchRGB
MaxBgW == 3

-----------------------------------------------------------------------------
(* Helpers *)

At(s, i) == s[i + 1]

Range(s) == {s[i] : i \in 1..Len(s)}

SetMax(S) == CHOOSE m \in S : \A x \in S : x <= m

\* all sequences over S of length at most n
RECURSIVE SeqsUpTo(_, _)
SeqsUpTo(S, n) ==
    IF n = 0 THEN {<<>>}
    ELSE LET shorter == SeqsUpTo(S, n - 1)
         IN  shorter \cup {Append(s, x) : s \in {q \in shorter : Len(q) = n - 1}, x \in S}

-----------------------------------------------------------------------------
(* Range presets, ddddocr.go:31-41 *)

RangeDigit == 0
RangeLowercase == 1
RangeUppercase == 2
RangeLowerUpper == 3
RangeLowerDigit == 4
RangeUpperDigit == 5
RangeLowerUpperDigit == 6
RangeNonAlphaNum == 7

Digits == <<"0", "1", "2", "3", "4", "5", "6", "7", "8", "9">>

Lowercase == <<"a", "b", "c", "d", "e", "f", "g", "h", "i", "j", "k", "l", "m",
               "n", "o", "p", "q", "r", "s", "t", "u", "v", "w", "x", "y", "z">>

Uppercase == <<"A", "B", "C", "D", "E", "F", "G", "H", "I", "J", "K", "L", "M",
               "N", "O", "P", "Q", "R", "S", "T", "U", "V", "W", "X", "Y", "Z">>

AlphaNum == Lowercase \o Uppercase \o Digits

\* A nil slice and a slice with elements
NilSlice == [nil |-> TRUE, elems |-> <<>>]

Slice(s) == [nil |-> FALSE, elems |-> s]

\* The argument of SetRanges(val interface{}): a string (a sequence of
\* one-character strings), an int, or a value of another type.
StringVal(s) == [type |-> "string", s |-> s, v |-> 0]

IntVal(v) == [type |-> "int", s |-> <<>>, v |-> v]

OtherVal == [type |-> "other", s |-> <<>>, v |-> 0]

\* d.charIndexMap as initOcrMode builds it: a later index overwrites an
\* earlier one for the same symbol.
charIndexMap(cs) ==
    [c \in Range(cs) |-> SetMax({i \in 0..(Len(cs) - 1) : At(cs, i) = c})]

\* RangeNonAlphaNum: the symbols of d.charsets outside alphaNum, in order
RECURSIVE NonAlphaNumChars(_, _)
NonAlphaNumChars(cs, i) ==
    IF i >= Len(cs) THEN <<>>
    ELSE LET c == At(cs, i)
         IN  (IF c \notin Range(AlphaNum) /\ c # "" THEN <<c>> ELSE <<>>)
             \o NonAlphaNumChars(cs, i + 1)

\* the switch of SetRanges: the characters selected, or "none" for the two
\* default branches that clear the range
RangeChars(cs, val) ==
    IF val.type = "string" THEN [ok |-> TRUE, chars |-> val.s]
    ELSE IF val.type = "int" THEN
        CASE val.v = RangeDigit -> [ok |-> TRUE, chars |-> Digits]
          [] val.v = RangeLowercase -> [ok |-> TRUE, chars |-> Lowercase]
          [] val.v = RangeUppercase -> [ok |-> TRUE, chars |-> Uppercase]
          [] val.v = RangeLowerUpper -> [ok |-> TRUE, chars |-> Lowercase \o Uppercase]
          [] val.v = RangeLowerDigit -> [ok |-> TRUE, chars |-> Lowercase \o Digits]
          [] val.v = RangeUpperDigit -> [ok |-> TRUE, chars |-> Uppercase \o Digits]
          [] val.v = RangeLowerUpperDigit -> [ok |-> TRUE, chars |-> AlphaNum]
          [] val.v = RangeNonAlphaNum -> [ok |-> TRUE, chars |-> NonAlphaNumChars(cs, 0)]
          [] OTHER -> [ok |-> FALSE, chars |-> <<>>]
    ELSE [ok |-> FALSE, chars |-> <<>>]

\* the index list: 0 first, then the index of every character the map knows
RECURSIVE BuildIndices(_, _, _)
BuildIndices(cs, chars, i) ==
    IF i > Len(chars) THEN <<>>
    ELSE (IF chars[i] \in DOMAIN charIndexMap(cs)
          THEN <<charIndexMap(cs)[chars[i]]>> ELSE <<>>)
         \o BuildIndices(cs, chars, i + 1)

\* (mutant) the index list built without the blank placeholder
SetRangesResultNoBlank(cs, val) ==
    LET sel == RangeChars(cs, val)
    IN  IF ~sel.ok THEN NilSlice
        ELSE Slice(BuildIndices(cs, sel.chars, 1))

SetRangesResult(cs, val) ==
    LET sel == RangeChars(cs, val)
    IN  IF ~sel.ok THEN NilSlice
        ELSE Slice(<<0>> \o BuildIndices(cs, sel.chars, 1))

-----------------------------------------------------------------------------
(* decodeOutputFloatFast, ddddocr.go:1470-1522 *)

\* float32(-1e9), the initial maxVal of the restricted scan
NegSentinel == -1000000000

\* The float32 scores of the model: two values below the sentinel and one
\* above it (all three are exact float32 values).
ScoreVals == {-2000000000, -1500000000, 0}

\* the class counts C of the model's tensors
ClassCounts == {2, 3}

\* the batch sizes B of a [T,B,C] tensor
BatchSizes == {1, 2}

\* one timestep's scores for batch 0: C values
Rows(numClasses) == [1..numClasses -> ScoreVals]

\* the shape switch: timesteps, batchSize, numClasses, or not ok
ShapeDims(sh) ==
    IF Len(sh) = 3 THEN [ok |-> TRUE, timesteps |-> sh[1], batchSize |-> sh[2], numClasses |-> sh[3]]
    ELSE IF Len(sh) = 2 THEN [ok |-> TRUE, timesteps |-> sh[1], batchSize |-> 1, numClasses |-> sh[2]]
    ELSE [ok |-> FALSE, timesteps |-> 0, batchSize |-> 0, numClasses |-> 0]

\* offset := t * batchSize * numClasses
Offset(sh, step) == step * ShapeDims(sh).batchSize * ShapeDims(sh).numClasses

\* (mutant) the restricted scan without its `c >= numClasses` check: an
\* index beyond the row reads whatever lies after it
RECURSIVE ScanAllowedUnchecked(_, _, _, _, _, _)
ScanAllowedUnchecked(r, numClasses, offset, elems, i, acc) ==
    IF i > Len(elems) THEN acc
    ELSE LET c == elems[i]
             val == IF c < numClasses THEN At(r, c) ELSE 0
             rd == acc.reads \cup {offset + c}
         IN  IF val > acc.maxVal
             THEN ScanAllowedUnchecked(r, numClasses, offset, elems, i + 1,
                                       [maxIdx |-> c, maxVal |-> val, reads |-> rd])
             ELSE ScanAllowedUnchecked(r, numClasses, offset, elems, i + 1,
                                       [acc EXCEPT !.reads = rd])

\* the restricted scan: for _, c := range allowedIndices, from position i
\* with the running [maxIdx, maxVal, reads]
RECURSIVE ScanAllowed(_, _, _, _, _, _)
ScanAllowed(r, numClasses, offset, elems, i, acc) ==
    IF i > Len(elems) THEN acc
    ELSE LET c == elems[i]
         IN  IF c >= numClasses
             THEN ScanAllowed(r, numClasses, offset, elems, i + 1, acc)
             ELSE LET val == At(r, c)
                      rd == acc.reads \cup {offset + c}
                  IN  IF val > acc.maxVal
                      THEN ScanAllowed(r, numClasses, offset, elems, i + 1,
                                       [maxIdx |-> c, maxVal |-> val, reads |-> rd])
                      ELSE ScanAllowed(r, numClasses, offset, elems, i + 1,
                                       [acc EXCEPT !.reads = rd])

\* the unrestricted scan: for c := 1; c < numClasses; c++
RECURSIVE ScanAll(_, _, _, _, _)
ScanAll(r, numClasses, offset, c, acc) ==
    IF c >= numClasses THEN acc
    ELSE LET val == At(r, c)
             rd == acc.reads \cup {offset + c}
         IN  IF val > acc.maxVal
             THEN ScanAll(r, numClasses, offset, c + 1,
                          [maxIdx |-> c, maxVal |-> val, reads |-> rd])
             ELSE ScanAll(r, numClasses, offset, c + 1, [acc EXCEPT !.reads = rd])

\* the class selected at one timestep
SelectIndex(r, numClasses, offset, allowed) ==
    IF Len(allowed.elems) > 0
    THEN ScanAllowed(r, numClasses, offset, allowed.elems, 1,
                     [maxIdx |-> 0, maxVal |-> NegSentinel, reads |-> {}])
    ELSE ScanAll(r, numClasses, offset, 1,
                 [maxIdx |-> 0, maxVal |-> At(r, 0), reads |-> {offset}])

\* if maxIdx != lastIdx && maxIdx != 0 && maxIdx < charsetLen
Emits(maxIdx, last, charsetLen) ==
    maxIdx # last /\ maxIdx # 0 /\ maxIdx < charsetLen

\* (mutant) lastIdx updated only when a symbol is emitted
NextLastIdxOnEmit(maxIdx, last, charsetLen) ==
    IF Emits(maxIdx, last, charsetLen) THEN maxIdx ELSE last

\* lastIdx = maxIdx, at the end of every iteration
NextLastIdx(maxIdx, last, charsetLen) == maxIdx

-----------------------------------------------------------------------------
(* The OCR instance and its calls *)

\* The instances of the model: two OCR-mode instances with a loaded
\* charset (the second shorter than the tensors' class count) and a
\* detection-mode instance, which loads no charset.
Instances ==
    { [charsets |-> <<"", "1", "a">>, isDetMode |-> FALSE],
      [charsets |-> <<"", "1">>, isDetMode |-> FALSE],
      [charsets |-> <<>>, isDetMode |-> TRUE] }

\* the characters of the custom range strings: two symbols of the
\* charsets and two characters no charset holds
RangeAlphabet == {"1", "a", "0", "?"}

\* the preset integers tried: the eight presets and one on each side
IntArgs == (RangeDigit - 1)..(RangeNonAlphaNum + 1)

RangeArgs ==
    {StringVal(s) : s \in SeqsUpTo(RangeAlphabet, MaxChars)}
        \cup {IntVal(v) : v \in IntArgs} \cup {OtherVal}

\* the timestep counts T of the model's tensors: the shortest and the
\* longest (a run over T timesteps passes through every shorter prefix)
Timesteps == {1, MaxT}

\* the score tensors' shapes: [T,C], [T,B,C], and shapes of 1 and 4 dimensions
GoodShapes ==
    {<<T, C>> : T \in Timesteps, C \in ClassCounts}
        \cup {<<T, B, C>> : T \in Timesteps, B \in BatchSizes, C \in ClassCounts}

BadShapes == {<<C>> : C \in ClassCounts} \cup {<<1, 1, 1, C>> : C \in ClassCounts}

Shapes == GoodShapes \cup BadShapes

\* what can go wrong before the decoder runs (ddddocr.go:646-737)
Outcomes == {"ok", "decodeFail", "tensorFail", "runFail", "noOutput", "badType"}

NoCall == [text |-> <<>>, err |-> "none"]

IdleCall ==
    /\ pc = "idle" /\ shape = <<>> /\ t = 0 /\ lastIdx = -1 /\ sb = <<>>
    /\ emitted = <<>> /\ path = <<>> /\ row = <<>> /\ reads = {} /\ ret = NoCall

\* no multiclassNMS, Detection or computeIoU call is under way
NmsOff ==
    /\ nmsPc = "off" /\ nmsIn = <<>> /\ nmsDets = <<>> /\ nmsKept = <<>> /\ nmsResult = <<>>

DetOff == detPc = "off" /\ detIn = <<>> /\ detRet = <<>>

IouOff == iouPc = "off" /\ iouIn = <<>> /\ iouRet = <<>>

CannyOff ==
    /\ cannyPc = "off" /\ cannyIn = <<>> /\ cannyMag = <<>> /\ cannySup = <<>>
    /\ cannyEdge = <<>>
    /\ cannyResult = <<>> /\ cannyPasses = 0

\* no sliding-puzzle function is under way
TmOff == tmPc = "off" /\ tmIn = <<>> /\ tmRet = <<>>

SmOff ==
    /\ smPc = "off" /\ smIn = <<>> /\ smCalls = <<>> /\ smExtract = <<>> /\ smRet = <<>>

GapOff ==
    /\ gapPc = "off" /\ gapIn = <<>> /\ gapDiff = <<>> /\ gapScan = <<>> /\ gapRet = <<>>

SlideOff == CannyOff /\ TmOff /\ SmOff /\ GapOff

\* no ClassificationProbability call is modelled
ProbOff == probPc = "off" /\ probIn = <<>> /\ probReads = <<>> /\ probRet = <<>>

\* no softmax call is modelled on its own
SfOff == sfPc = "off" /\ sfIn = <<>> /\ sfRet = <<>>

\* no demoPostprocess call is modelled on its own
PostOff == postPc = "off" /\ postIn = <<>> /\ postRet = <<>>

\* no New call is modelled
LifeOff ==
    /\ lifePc = "off" /\ initOnce = FALSE /\ onnxRuntimePath = "" /\ envInits = 0
    /\ envErr = FALSE /\ insts = <<>> /\ newRets = <<>> /\ opRet = <<>>

\* no pool is modelled
PoolOff == poolPc = "off" /\ poolChan = <<>> /\ workers = <<>> /\ poolCloses = <<>>

\* no goroutines are modelled
ConcOff ==
    /\ concPc = "off" /\ concIn = <<>> /\ concHeap = <<>> /\ concHeap0 = <<>>
    /\ procs = <<>> /\ accesses = {}

LateOff == LifeOff /\ PoolOff /\ ConcOff

RestOff == SfOff /\ PostOff /\ LateOff

\* an instance as New returns it
NewInstance ==
    /\ \E inst \in Instances :
          /\ charsets = inst.charsets
          /\ isDetMode = inst.isDetMode
    /\ allowedIndices = NilSlice
    /\ lastCall = [op |-> "New", val |-> OtherVal]
    /\ IdleCall

InitOcr == NewInstance /\ NmsOff /\ DetOff /\ IouOff /\ SlideOff /\ ProbOff /\ RestOff

callVars == <<pc, shape, t, lastIdx, sb, emitted, path, row, reads, ret>>

\* SetRanges(val), ddddocr.go:571-620
SetRanges(val) ==
    /\ pc = "idle"
    /\ allowedIndices' = SetRangesResult(charsets, val)
    /\ UNCHANGED <<charsets, isDetMode, callVars>>
    /\ UNCHANGED notOcrVars

\* ClearRanges(), ddddocr.go:623-625
ClearRanges ==
    /\ pc = "idle"
    /\ allowedIndices' = NilSlice
    /\ UNCHANGED <<charsets, isDetMode, callVars>>
    /\ UNCHANGED notOcrVars

\* Classification up to the decoder's loop, ddddocr.go:641-737 and
\* 1470-1487: the checks before inference, then the shape switch.
ClassificationCall(outcome, sh) ==
    /\ pc = "idle"
    /\ IF isDetMode
       THEN /\ ret' = [text |-> <<>>, err |-> "detMode"]
            /\ pc' = "returned"
            /\ UNCHANGED shape
       ELSE IF outcome # "ok"
       THEN /\ ret' = [text |-> <<>>, err |-> outcome]
            /\ pc' = "returned"
            /\ UNCHANGED shape
       ELSE /\ shape' = sh
            /\ IF ShapeDims(sh).ok
               THEN pc' = "decoding" /\ UNCHANGED ret
               ELSE pc' = "returned" /\ ret' = [text |-> <<>>, err |-> "nil"]
    /\ UNCHANGED <<charsets, isDetMode, allowedIndices, lastCall,
                   t, lastIdx, sb, emitted, path, row, reads>>
    /\ UNCHANGED notOcrVars

\* one iteration of the decoder's loop over the timesteps; r is the slice
\* output[offset : offset+numClasses] of the tensor
DecodeStep(r) ==
    /\ pc = "decoding"
    /\ t < ShapeDims(shape).timesteps
    /\ LET sel == SelectIndex(r, ShapeDims(shape).numClasses, Offset(shape, t), allowedIndices)
           emit == Emits(sel.maxIdx, lastIdx, Len(charsets))
       IN  /\ sb' = IF emit THEN Append(sb, At(charsets, sel.maxIdx)) ELSE sb
           /\ emitted' = IF emit THEN Append(emitted, sel.maxIdx) ELSE emitted
           /\ lastIdx' = NextLastIdx(sel.maxIdx, lastIdx, Len(charsets))
           /\ path' = Append(path, sel.maxIdx)
           /\ reads' = sel.reads
    /\ row' = r
    /\ t' = t + 1
    /\ UNCHANGED <<charsets, isDetMode, allowedIndices, lastCall, pc, shape, ret>>
    /\ UNCHANGED notOcrVars

\* the loop ends: return sb.String(), and Classification returns it with
\* a nil error (ddddocr.go:728-734)
DecodeReturn ==
    /\ pc = "decoding"
    /\ t = ShapeDims(shape).timesteps
    /\ ret' = [text |-> sb, err |-> "nil"]
    /\ pc' = "returned"
    /\ UNCHANGED <<charsets, isDetMode, allowedIndices, lastCall,
                   shape, t, lastIdx, sb, emitted, path, row, reads>>
    /\ UNCHANGED notOcrVars

\* the caller takes the result; the instance is ready for the next call
TakeResult ==
    /\ pc = "returned"
    /\ pc' = "idle" /\ shape' = <<>> /\ t' = 0 /\ lastIdx' = -1 /\ sb' = <<>>
    /\ emitted' = <<>> /\ path' = <<>> /\ row' = <<>> /\ reads' = {} /\ ret' = NoCall
    /\ UNCHANGED <<charsets, isDetMode, allowedIndices, lastCall>>
    /\ UNCHANGED notOcrVars

NextOcr ==
    \/ \E val \in RangeArgs : SetRanges(val) /\ UNCHANGED lastCall
    \/ ClearRanges /\ UNCHANGED lastCall
    \/ \E outcome \in Outcomes, sh \in Shapes : ClassificationCall(outcome, sh)
    \/ \E r \in Rows(ShapeDims(shape).numClasses) : DecodeStep(r)
    \/ DecodeReturn
    \/ TakeResult

\* The OCR instance: range selection and decoding
SpecOcr == InitOcr /\ [][NextOcr]_vars

\* The range selector alone, with the last call recorded
NextRanges ==
    \/ \E val \in RangeArgs :
          SetRanges(val) /\ lastCall' = [op |-> "SetRanges", val |-> val]
    \/ ClearRanges /\ lastCall' = [op |-> "ClearRanges", val |-> OtherVal]

SpecRanges == InitOcr /\ [][NextRanges]_vars

-----------------------------------------------------------------------------
(* The detection postprocessor, ddddocr.go:1593-1723 *)

\* A float32 of the detector is modelled in fixed point: the integer
\* Milli * v stands for v.  A score (a product of two floats) is in units
\* of 1/Milli^2.  The letterbox ratio is a fraction [n, d].
Milli == 1000

\* int(x) of Go for the quotient a / b, b > 0: truncation towards zero
TruncDiv(a, b) == IF a >= 0 THEN a \div b ELSE -((-a) \div b)

Min2(a, b) == IF a < b THEN a ELSE b

Max2(a, b) == IF a > b THEN a ELSE b

\* maxClassScore: the largest of 0 and the class scores pred[5:]
RECURSIVE MaxClassScore(_, _, _)
MaxClassScore(cls, j, best) ==
    IF j > Len(cls) THEN best
    ELSE MaxClassScore(cls, j + 1, IF cls[j] > best THEN cls[j] ELSE best)

\* score := objScore * maxClassScore
PredScore(pred) == pred.obj * MaxClassScore(pred.cls, 1, 0)

\* (cx -/+ w/2) / ratio truncated, then clipped: x1, y1 from below at 0,
\* x2, y2 from above at origW, origH
PredBox(pred, ratio, origW, origH) ==
    LET x1 == TruncDiv((2 * pred.cx - pred.w) * ratio.d, 2 * Milli * ratio.n)
        y1 == TruncDiv((2 * pred.cy - pred.h) * ratio.d, 2 * Milli * ratio.n)
        x2 == TruncDiv((2 * pred.cx + pred.w) * ratio.d, 2 * Milli * ratio.n)
        y2 == TruncDiv((2 * pred.cy + pred.h) * ratio.d, 2 * Milli * ratio.n)
    IN  [X1 |-> IF x1 < 0 THEN 0 ELSE x1,
         Y1 |-> IF y1 < 0 THEN 0 ELSE y1,
         X2 |-> IF x2 > origW THEN origW ELSE x2,
         Y2 |-> IF y2 > origH THEN origH ELSE y2]

\* the first loop: the detections at or above scoreThr, in anchor order;
\* src (not in the code) remembers the anchor a detection came from
RECURSIVE CollectDets(_, _, _, _, _, _)
CollectDets(preds, i, ratio, origW, origH, scoreThr) ==
    IF i > Len(preds) THEN <<>>
    ELSE (IF PredScore(preds[i]) < scoreThr * Milli THEN <<>>
          ELSE <<[box |-> PredBox(preds[i], ratio, origW, origH),
                  score |-> PredScore(preds[i]),
                  src |-> i - 1]>>)
         \o CollectDets(preds, i + 1, ratio, origW, origH, scoreThr)

\* sort.Slice with less = score descending.  sort.Slice is not stable:
\* every order of dets that is descending in score is an outcome.
RECURSIVE SortOutcomes(_, _)
SortOutcomes(dets, left) ==
    IF left = {} THEN {<<>>}
    ELSE LET top == {i \in left : \A j \in left : dets[j].score <= dets[i].score}
         IN  UNION {{<<dets[i]>> \o rest : rest \in SortOutcomes(dets, left \ {i})} : i \in top}

\* computeIoU dividing by areaA + areaB
computeIoUSumOfAreas(a, b) ==
    LET x1 == Max2(a.X1, b.X1)
        y1 == Max2(a.Y1, b.Y1)
        x2 == Min2(a.X2, b.X2)
        y2 == Min2(a.Y2, b.Y2)
        inter == (x2 - x1) * (y2 - y1)
        areaA == (a.X2 - a.X1) * (a.Y2 - a.Y1)
        areaB == (b.X2 - b.X1) * (b.Y2 - b.Y1)
    IN  IF x2 <= x1 \/ y2 <= y1 THEN [n |-> 0, d |-> 1]
        ELSE [n |-> inter, d |-> areaA + areaB]

\* computeIoU: 0 when the intersection is empty, else
\* inter / (areaA + areaB - inter), as the fraction [n, d]
computeIoU(a, b) ==
    LET x1 == Max2(a.X1, b.X1)
        y1 == Max2(a.Y1, b.Y1)
        x2 == Min2(a.X2, b.X2)
        y2 == Min2(a.Y2, b.Y2)
        inter == (x2 - x1) * (y2 - y1)
        areaA == (a.X2 - a.X1) * (a.Y2 - a.Y1)
        areaB == (b.X2 - b.X1) * (b.Y2 - b.Y1)
    IN  IF x2 <= x1 \/ y2 <= y1 THEN [n |-> 0, d |-> 1]
        ELSE [n |-> inter, d |-> areaA + areaB - inter]

\* iou > nmsThr, for a fraction with d > 0 and a threshold in 1/Milli
IoUAbove(iou, nmsThr) == iou.n * Milli > nmsThr * iou.d

\* the inner loop looking at the next detection only
SuppressedNextOnly(dets, i, used, nmsThr) ==
    {j \in (i + 1)..Min2(i + 1, Len(dets)) :
        j \notin used /\ IoUAbove(computeIoU(dets[i].box, dets[j].box), nmsThr)}

\* (altered) the inner loop without its test of the IoU
SuppressedUntested(dets, i, used, nmsThr) ==
    {j \in (i + 1)..Len(dets) : j \notin used}

\* the inner loop for the accepted dets[i]: the later, unused j it marks used
Suppressed(dets, i, used, nmsThr) ==
    {j \in (i + 1)..Len(dets) :
        j \notin used /\ IoUAbove(computeIoU(dets[i].box, dets[j].box), nmsThr)}

\* the greedy loop from position i: [result, kept]
RECURSIVE Greedy(_, _, _, _, _)
Greedy(dets, i, used, nmsThr, acc) ==
    IF i > Len(dets) THEN acc
    ELSE IF i \in used THEN Greedy(dets, i + 1, used, nmsThr, acc)
    ELSE Greedy(dets, i + 1, used \cup Suppressed(dets, i, used, nmsThr), nmsThr,
                [result |-> Append(acc.result, dets[i].box),
                 kept |-> Append(acc.kept, i)])

\* multiclassNMS: one outcome per outcome of the sort
multiclassNMS(preds, ratio, origW, origH, nmsThr, scoreThr) ==
    LET dets == CollectDets(preds, 1, ratio, origW, origH, scoreThr)
    IN  {[dets |-> sorted] @@ Greedy(sorted, 1, {}, nmsThr, [result |-> <<>>, kept |-> <<>>]) :
            sorted \in SortOutcomes(dets, 1..Len(dets))}

-----------------------------------------------------------------------------
(* multiclassNMS and computeIoU as calls on drawn arguments *)

\* nmsThr and scoreThr as Detection passes them: 0.45 and 0.1
DetNmsThr == 450

DetScoreThr == 100

\* no OCR instance takes part
OcrOff ==
    /\ charsets = <<>> /\ isDetMode = FALSE /\ allowedIndices = NilSlice
    /\ lastCall = [op |-> "none", val |-> OtherVal]
    /\ IdleCall

\* The predictions of the model, as demoPostprocess can produce them
\* (w, h > 0): centres of three boxes overlapping in a chain inside the
\* image and one centre right of and above the image; one size; a score
\* of 1 (class 0), of 1/2 (class 1) and of 0.
PredCentres == {<<2, 2>>, <<3, 2>>, <<4, 2>>, <<14, -6>>}

PredSide == 4

PredScores ==
    { [obj |-> Milli, cls |-> <<Milli, 0>>],
      [obj |-> Milli \div 2, cls |-> <<0, Milli>>],
      [obj |-> Milli, cls |-> <<0, 0>>] }

Preds ==
    { [cx |-> c[1] * Milli, cy |-> c[2] * Milli, w |-> PredSide * Milli, h |-> PredSide * Milli,
       obj |-> sc.obj, cls |-> sc.cls] : c \in PredCentres, sc \in PredScores }

\* the arguments of the multiclassNMS calls of the model
NmsArgs ==
    { [preds |-> ps, ratio |-> r, origW |-> 8, origH |-> 6, nmsThr |-> nt, scoreThr |-> DetScoreThr] :
        ps \in SeqsUpTo(Preds, MaxPreds),
        r \in {[n |-> 1, d |-> 1], [n |-> 2, d |-> 1]},
        nt \in {0, DetNmsThr} }

InitNms ==
    /\ OcrOff /\ DetOff /\ IouOff /\ SlideOff /\ ProbOff /\ RestOff
    /\ nmsPc = "start"
    /\ nmsIn \in NmsArgs
    /\ nmsDets = <<>> /\ nmsKept = <<>> /\ nmsResult = <<>>

\* multiclassNMS(predictions, ratio, origW, origH, nmsThr, scoreThr)
NmsCall ==
    /\ nmsPc = "start"
    /\ \E out \in multiclassNMS(nmsIn.preds, nmsIn.ratio, nmsIn.origW, nmsIn.origH,
                                 nmsIn.nmsThr, nmsIn.scoreThr) :
          /\ nmsDets' = out.dets
          /\ nmsKept' = out.kept
          /\ nmsResult' = out.result
    /\ nmsPc' = "done"
    /\ UNCHANGED <<nmsIn, ocrVars, detVars, iouVars, slideVars, probVars, restVars>>

NextNms == NmsCall

SpecNms == InitNms /\ [][NextNms]_vars

\* the boxes handed to computeIoU: every corner pair on the grid, the
\* degenerate and the inverted ones (which clipping produces) included
Boxes == [X1 : 0..MaxCoord, Y1 : 0..MaxCoord, X2 : 0..MaxCoord, Y2 : 0..MaxCoord]

InitIoU ==
    /\ OcrOff /\ NmsOff /\ DetOff /\ SlideOff /\ ProbOff /\ RestOff
    /\ iouPc = "start"
    /\ iouIn \in [a : Boxes, b : Boxes]
    /\ iouRet = <<>>

\* computeIoU(a, b)
IoUCall ==
    /\ iouPc = "start"
    /\ iouRet' = computeIoU(iouIn.a, iouIn.b)
    /\ iouPc' = "done"
    /\ UNCHANGED <<iouIn, ocrVars, nmsVars, detVars, slideVars, probVars, restVars>>

NextIoU == IoUCall

SpecIoU == InitIoU /\ [][NextIoU]_vars

-----------------------------------------------------------------------------
(* Detection: demoPostprocess on the session's output, then multiclassNMS *)

strides == <<8, 16, 32>>

\* (altered) the cells of one stride column by column, x outer and y inner
GridOfColumns(stride, imgSize) ==
    LET hsize == imgSize \div stride
        wsize == imgSize \div stride
    IN  [k \in 1..(hsize * wsize) |->
            [x |-> (k - 1) \div hsize, y |-> (k - 1) % hsize, stride |-> stride]]

\* the cells of one stride, row by row: [x, y, stride]
GridOf(stride, imgSize) ==
    LET hsize == imgSize \div stride
        wsize == imgSize \div stride
    IN  [k \in 1..(hsize * wsize) |->
            [x |-> (k - 1) % wsize, y |-> (k - 1) \div wsize, stride |-> stride]]

\* grids and expandedStrides, over the three strides
Grids(imgSize) ==
    GridOf(strides[1], imgSize) \o GridOf(strides[2], imgSize) \o GridOf(strides[3], imgSize)

\* float32(math.Exp(v)) in 1/Milli for the tensor values of the model
ExpMilli(v) ==
    CASE v = 0 -> 1000
      [] v = 500 -> 1649
      [] v = 1000 -> 2718
      [] v = 3000 -> 20086

\* prediction i (from 0) of records numClasses + 5 wide; a record 4 wide
\* (numClasses = -1) has no pred[4]
DecodePred(outputs, i, numClasses, g) ==
    LET base == i * (5 + numClasses)
        geom == [cx |-> (outputs[base + 1] + g.x * Milli) * g.stride,
                 cy |-> (outputs[base + 2] + g.y * Milli) * g.stride,
                 w |-> ExpMilli(outputs[base + 3]) * g.stride,
                 h |-> ExpMilli(outputs[base + 4]) * g.stride]
    IN  IF numClasses < 0 THEN geom
        ELSE geom @@ [obj |-> outputs[base + 5],
                      cls |-> SubSeq(outputs, base + 6, base + 5 + numClasses)]

\* demoPostprocess.  numClasses is the truncated quotient less 5 and no
\* length is compared: with records narrower than 4 the writes of
\* pred[0..3] are out of range (a panic), any wider record is decoded.
demoPostprocess(outputs, imgSize) ==
    LET grids == Grids(imgSize)
        numAnchors == Len(grids)
        numClasses == Len(outputs) \div numAnchors - 5
    IN  IF 5 + numClasses < 4
        THEN [panic |-> TRUE, numClasses |-> numClasses, predictions |-> <<>>]
        ELSE [panic |-> FALSE, numClasses |-> numClasses,
              predictions |-> [k \in 1..numAnchors |->
                                  DecodePred(outputs, k - 1, numClasses, grids[k])]]

\* preproc's ratio min(inputSize/origH, inputSize/origW) as a fraction
PreprocRatio(img, inputSize) ==
    [n |-> inputSize, d |-> Max2(img.h, img.w)]

\* the images of the model: one as large as the input, one twice as wide
DetImages == {[w |-> InputSize, h |-> InputSize], [w |-> 2 * InputSize, h |-> InputSize]}

\* three output records of one class (5 + 1 wide): an object in the
\* middle of its cell and as large as the cell, the same object three
\* cells further right, and nothing
AnchorRecs ==
    { <<500, 500, 0, 0, 1000, 1000>>, <<3000, 500, 0, 0, 1000, 1000>>, <<0, 0, 0, 0, 0, 0>> }

RecWidth == 6

RECURSIVE Flatten(_)
Flatten(recs) == IF recs = <<>> THEN <<>> ELSE Head(recs) \o Flatten(Tail(recs))

\* the output lengths for N anchors: none, records one entry short of an
\* objectness, one entry missing, the exact length, one entry more, one
\* record more
TensorLens(N) ==
    {0, N * (RecWidth - 2), N * RecWidth - 1, N * RecWidth, N * RecWidth + 1, (N + 1) * RecWidth}

DetTensors ==
    LET N == Len(Grids(InputSize))
    IN  { SubSeq(Flatten(recs), 1, len) :
            recs \in [1..(N + 1) -> AnchorRecs], len \in TensorLens(N) }

\* what can go wrong before the postprocessor runs (ddddocr.go:833-867)
DetOutcomes == {"ok", "decodeFail", "tensorFail", "runFail", "noOutput", "badType"}

InitDet ==
    /\ NewInstance /\ NmsOff /\ IouOff /\ SlideOff /\ ProbOff /\ RestOff
    /\ detPc = "idle" /\ detIn = <<>> /\ detRet = <<>>

\* Detection(imageData): img is the decoded image, tensor the data of the
\* session's output
Detection(img, outcome, tensor) ==
    /\ detPc = "idle"
    /\ detIn' = [img |-> img, outcome |-> outcome, tensor |-> tensor]
    /\ IF ~isDetMode
       THEN detRet' = [boxes |-> <<>>, err |-> "notDetMode", panic |-> FALSE]
       ELSE IF outcome # "ok"
       THEN detRet' = [boxes |-> <<>>, err |-> outcome, panic |-> FALSE]
       ELSE LET predictions == demoPostprocess(tensor, InputSize)
            IN  IF predictions.panic
                THEN detRet' = [boxes |-> <<>>, err |-> "nil", panic |-> TRUE]
                ELSE IF predictions.numClasses < 0
                THEN \* objScore := pred[4] is out of range
                     detRet' = [boxes |-> <<>>, err |-> "nil", panic |-> TRUE]
                ELSE \E out \in multiclassNMS(predictions.predictions,
                                               PreprocRatio(img, InputSize),
                                               img.w, img.h, DetNmsThr, DetScoreThr) :
                        detRet' = [boxes |-> out.result, err |-> "nil", panic |-> FALSE]
    /\ detPc' = "done"
    /\ UNCHANGED <<ocrVars, nmsVars, iouVars, slideVars, probVars, restVars>>

\* a call that fails before the session returns has no output tensor
NextDet ==
    /\ detPc = "idle"
    /\ \E img \in DetImages, outcome \in DetOutcomes :
          \E tensor \in (IF outcome = "ok" THEN DetTensors ELSE {<<>>}) :
              Detection(img, outcome, tensor)

SpecDet == InitDet /\ [][NextDet]_vars

-----------------------------------------------------------------------------
(* cannyEdgeDetect *)

\* the thresholds SlideMatch passes
CannyLow == 100

CannyHigh == 200

\* int(0.299*r + 0.587*g + 0.114*b) for a grey pixel r = g = b = v; for
\* the grey levels of the model the float64 sum is v exactly
GrayOf(v) == (299 * v + 587 * v + 114 * v) \div 1000

\* gray[y][x], y and x from 0, of an image given as rows of grey pixels
Gray(img, x, y) == GrayOf(img[y + 1][x + 1])

Interior(w, h) == {c \in (1..(w - 2)) \X (1..(h - 2)) : TRUE}

IsInterior(x, y, w, h) == 1 <= x /\ x <= w - 2 /\ 1 <= y /\ y <= h - 2

\* int(math.Sqrt(float64(n))): the integer square root, lo <= root < hi
RECURSIVE SqrtBetween(_, _, _)
SqrtBetween(n, lo, hi) ==
    IF hi - lo <= 1 THEN lo
    ELSE LET mid == (lo + hi) \div 2
         IN  IF mid * mid <= n THEN SqrtBetween(n, mid, hi) ELSE SqrtBetween(n, lo, mid)

\* the Sobel gradients at an interior pixel
SobelX(img, x, y) ==
    - Gray(img, x - 1, y - 1) - 2 * Gray(img, x - 1, y) - Gray(img, x - 1, y + 1)
    + Gray(img, x + 1, y - 1) + 2 * Gray(img, x + 1, y) + Gray(img, x + 1, y + 1)

SobelY(img, x, y) ==
    - Gray(img, x - 1, y - 1) - 2 * Gray(img, x, y - 1) - Gray(img, x + 1, y - 1)
    + Gray(img, x - 1, y + 1) + 2 * Gray(img, x, y + 1) + Gray(img, x + 1, y + 1)

Abs(v) == IF v < 0 THEN -v ELSE v

\* magnitude: zero on the border, int(sqrt(gx*gx + gy*gy)) inside
Magnitude(img, w, h) ==
    [y \in 0..(h - 1) |-> [x \in 0..(w - 1) |->
        IF IsInterior(x, y, w, h)
        THEN SqrtBetween(SobelX(img, x, y) * SobelX(img, x, y)
                           + SobelY(img, x, y) * SobelY(img, x, y), 0,
                         Abs(SobelX(img, x, y)) + Abs(SobelY(img, x, y)) + 1)
        ELSE 0]]

\* the branch the angle atan2(gy, gx) in degrees, plus 180 when negative,
\* selects: [0, 22.5) and [157.5, 180] "h", [22.5, 67.5) "d1",
\* [67.5, 112.5) "v", the rest "d2"; tan 22.5 = sqrt 2 - 1 and
\* tan 67.5 = sqrt 2 + 1, compared in squares
Sector(gx, gy) ==
    LET ax == Abs(gx)
        ay == Abs(gy)
    IN  IF (ax + ay) * (ax + ay) < 2 * ax * ax THEN "h"
        ELSE IF ay >= ax /\ (ay - ax) * (ay - ax) > 2 * ax * ax THEN "v"
        ELSE IF (gx > 0) = (gy > 0) THEN "d1"
        ELSE "d2"

\* the two neighbours q, r compared with at an interior pixel
SectorNeighbours(sector, x, y) ==
    CASE sector = "h" -> <<<<x + 1, y>>, <<x - 1, y>>>>
      [] sector = "d1" -> <<<<x + 1, y - 1>>, <<x - 1, y + 1>>>>
      [] sector = "v" -> <<<<x, y - 1>>, <<x, y + 1>>>>
      [] sector = "d2" -> <<<<x - 1, y - 1>>, <<x + 1, y + 1>>>>

\* suppressed: non-maximum suppression of the magnitude
Suppress(img, magnitude, w, h) ==
    [y \in 0..(h - 1) |-> [x \in 0..(w - 1) |->
        IF ~IsInterior(x, y, w, h) \/ magnitude[y][x] = 0 THEN 0
        ELSE LET nb == SectorNeighbours(Sector(SobelX(img, x, y), SobelY(img, x, y)), x, y)
                 q == magnitude[nb[1][2]][nb[1][1]]
                 r == magnitude[nb[2][2]][nb[2][1]]
             IN  IF magnitude[y][x] >= q /\ magnitude[y][x] >= r
                 THEN magnitude[y][x] ELSE 0]]

\* the double threshold writing the magnitude into result
ClassifyKeepMagnitude(suppressed, w, h, lowThreshold, highThreshold) ==
    [edge |-> [y \in 0..(h - 1) |-> [x \in 0..(w - 1) |->
                 IF ~IsInterior(x, y, w, h) THEN 0
                 ELSE IF suppressed[y][x] >= highThreshold THEN 2
                 ELSE IF suppressed[y][x] >= lowThreshold THEN 1
                 ELSE 0]],
     result |-> [y \in 0..(h - 1) |-> [x \in 0..(w - 1) |->
                 IF IsInterior(x, y, w, h) /\ suppressed[y][x] >= highThreshold
                 THEN Min2(suppressed[y][x], 254) ELSE 0]]]

\* the double threshold: edge 2 and result 255 at or above highThreshold,
\* edge 1 at or above lowThreshold, inside the border
Classify(suppressed, w, h, lowThreshold, highThreshold) ==
    [edge |-> [y \in 0..(h - 1) |-> [x \in 0..(w - 1) |->
                 IF ~IsInterior(x, y, w, h) THEN 0
                 ELSE IF suppressed[y][x] >= highThreshold THEN 2
                 ELSE IF suppressed[y][x] >= lowThreshold THEN 1
                 ELSE 0]],
     result |-> [y \in 0..(h - 1) |-> [x \in 0..(w - 1) |->
                 IF IsInterior(x, y, w, h) /\ suppressed[y][x] >= highThreshold
                 THEN 255 ELSE 0]]]

\* a weak pixel is promoted when one of its 4 neighbours is strong
PromotesFour(edge, x, y) ==
    /\ edge[y][x] = 1
    /\ \E d \in {<<-1, 0>>, <<1, 0>>, <<0, -1>>, <<0, 1>>} : edge[y + d[2]][x + d[1]] = 2

\* a weak pixel is promoted when one of its 8 neighbours is strong
Promotes(edge, x, y) ==
    /\ edge[y][x] = 1
    /\ \E dy \in -1..1, dx \in -1..1 : edge[y + dy][x + dx] = 2

\* one pass of the linking loop from interior pixel k, row by row, each
\* promotion written at once: st is [edge, result]
RECURSIVE LinkFrom(_, _, _, _)
LinkFrom(st, k, w, h) ==
    IF w < 3 \/ h < 3 \/ k >= (w - 2) * (h - 2) THEN st
    ELSE LET x == 1 + (k % (w - 2))
             y == 1 + (k \div (w - 2))
         IN  IF Promotes(st.edge, x, y)
             THEN LinkFrom([edge |-> [st.edge EXCEPT ![y][x] = 2],
                            result |-> [st.result EXCEPT ![y][x] = 255]], k + 1, w, h)
             ELSE LinkFrom(st, k + 1, w, h)

\* rows of three or four grey pixels with a vertical edge of no, low or
\* high contrast, at one of two places
RowPats ==
    { <<0, 0, 0, 0>>, <<0, 0, 30, 30>>, <<0, 0, 60, 60>>, <<0, 30, 30, 30>>, <<0, 60, 60, 60>> }

CannyImages == UNION {[1..h -> RowPats] : h \in 1..MaxRows}

\* no function but cannyEdgeDetect is under way
NotCannyOff == OcrOff /\ NmsOff /\ DetOff /\ IouOff /\ TmOff /\ SmOff /\ GapOff /\ ProbOff /\ RestOff

InitCanny ==
    /\ NotCannyOff
    /\ cannyPc = "start"
    /\ cannyIn \in CannyImages
    /\ cannyMag = <<>> /\ cannySup = <<>> /\ cannyEdge = <<>> /\ cannyResult = <<>>
    /\ cannyPasses = 0

\* grey conversion and the Sobel loop
CannyGradient ==
    /\ cannyPc = "start"
    /\ cannyMag' = Magnitude(cannyIn, Len(cannyIn[1]), Len(cannyIn))
    /\ cannyPc' = "suppress"
    /\ UNCHANGED <<cannyIn, cannySup, cannyEdge, cannyResult, cannyPasses,
                   notCannyVars>>

\* the non-maximum suppression loop
CannySuppress ==
    /\ cannyPc = "suppress"
    /\ cannySup' = Suppress(cannyIn, cannyMag, Len(cannyIn[1]), Len(cannyIn))
    /\ cannyPc' = "threshold"
    /\ UNCHANGED <<cannyIn, cannyMag, cannyEdge, cannyResult, cannyPasses,
                   notCannyVars>>

\* the double-threshold loop
CannyThreshold ==
    /\ cannyPc = "threshold"
    /\ LET st == Classify(cannySup, Len(cannyIn[1]), Len(cannyIn), CannyLow, CannyHigh)
       IN  /\ cannyEdge' = st.edge
           /\ cannyResult' = st.result
    /\ cannyPc' = "linking"
    /\ UNCHANGED <<cannyIn, cannyMag, cannySup, cannyPasses,
                   notCannyVars>>

\* (altered) the loop goes on while a weak pixel is left
ChangedWhileWeak(before, after) ==
    \E y \in DOMAIN after : \E x \in DOMAIN after[y] : after[y][x] = 1

\* changed, after a pass that took edge from before to after: set with
\* every promotion and by nothing else
Changed(before, after) == after # before

\* the passes counted in cannyPasses: one more than the image has pixels;
\* a loop that is still running then never ends
PassCap(img) == Len(img) * Len(img[1]) + 1

\* one pass of "for changed"; the pass that changes nothing ends the loop
\* and result is returned
CannyPass ==
    /\ cannyPc = "linking"
    /\ cannyPasses <= PassCap(cannyIn)
    /\ LET st == LinkFrom([edge |-> cannyEdge, result |-> cannyResult], 0,
                          Len(cannyIn[1]), Len(cannyIn))
       IN  /\ cannyEdge' = st.edge
           /\ cannyResult' = st.result
           /\ cannyPc' = IF Changed(cannyEdge, st.edge) THEN "linking" ELSE "done"
    /\ cannyPasses' = cannyPasses + 1
    /\ UNCHANGED <<cannyIn, cannyMag, cannySup, notCannyVars>>

NextCanny == CannyGradient \/ CannySuppress \/ CannyThreshold \/ CannyPass

SpecCanny == InitCanny /\ [][NextCanny]_vars

\* before the call: no image yet
InitCannyCall ==
    /\ NotCannyOff
    /\ cannyPc = "call"
    /\ cannyIn = <<>>
    /\ cannyMag = <<>> /\ cannySup = <<>> /\ cannyEdge = <<>> /\ cannyResult = <<>>
    /\ cannyPasses = 0

\* cannyEdgeDetect(img, lowThreshold, highThreshold) is entered
CannyEnter(img) ==
    /\ cannyPc = "call"
    /\ cannyIn' = img
    /\ cannyPc' = "start"
    /\ UNCHANGED <<cannyMag, cannySup, cannyEdge, cannyResult, cannyPasses, notCannyVars>>

\* the rows with an edge between the second and the third column, or none
LinkPats == { <<0, 0, 0, 0>>, <<0, 0, 30, 30>>, <<0, 0, 60, 60>> }

\* the images of MaxRows such rows under a plain top row
LinkImages == {img \in [1..MaxRows -> LinkPats] : img[1] = <<0, 0, 0, 0>>}

NextCannyCall == (\E img \in LinkImages : CannyEnter(img)) \/ NextCanny

\* cannyEdgeDetect is a sequential function: a call goes on to its next
\* step
SpecCannyFair == InitCannyCall /\ [][NextCannyCall]_vars /\ WF_vars(NextCannyCall)

-----------------------------------------------------------------------------
(* templateMatchRGB *)

\* the zero value image.Point{}
Origin == [X |-> 0, Y |-> 0]

RECURSIVE SumSeq(_)
SumSeq(q) == IF q = <<>> THEN 0 ELSE Head(q) + SumSeq(Tail(q))

\* the pixels of the tw x th window of img at (x, y), row by row
\* (idx = ty*tplW + tx)
Window(img, x, y, tw, th) ==
    Flatten([ty \in 1..th |-> SubSeq(img[y + ty], x + 1, x + tw)])

\* the pixels less their mean, times n / 255 (whole numbers for pixels
\* 0 and 255)
Deviations(vals) ==
    LET units == [i \in 1..Len(vals) |-> vals[i] \div 255]
        total == SumSeq(units)
    IN  [i \in 1..Len(vals) |-> Len(vals) * units[i] - total]

\* the sum over the three equal channels of a[i] * b[i]
Dot3(a, b) == 3 * SumSeq([i \in 1..Len(a) |-> a[i] * b[i]])

\* math.Sqrt(variance) < 1.0, the variance being
\* 255^2 * Dot3(dev, dev) / n^2
StdBelowOne(vals) ==
    LET dev == Deviations(vals)
    IN  255 * 255 * Dot3(dev, dev) < Len(vals) * Len(vals)

\* a window is never passed over
SkipsNever(vals) == FALSE

\* winStd < 1.0: the window is passed over
Skips(vals) == StdBelowOne(vals)

\* ncc of a window against the template, less the common factors: the
\* fraction c / sqrt(v)
Ncc(win, tplDev) ==
    LET dev == Deviations(win)
    IN  [c |-> Dot3(dev, tplDev), v |-> Dot3(dev, dev)]

\* a.c / sqrt(a.v) > b.c / sqrt(b.v), in squares
NccGreater(a, b) ==
    IF a.c >= 0 /\ b.c < 0 THEN TRUE
    ELSE IF a.c < 0 /\ b.c >= 0 THEN FALSE
    ELSE IF a.c >= 0 THEN a.c * a.c * b.v > b.c * b.c * a.v
    ELSE a.c * a.c * b.v < b.c * b.c * a.v

\* position p comes before q in the scan: y outer, x inner
Earlier(p, q) == p.Y < q.Y \/ (p.Y = q.Y /\ p.X < q.X)

\* the last of the windows of greatest ncc is kept
KeepsLast(p, cands, ncc, win) ==
    \A q \in cands \ {p} :
        /\ ~NccGreater(ncc[q], ncc[p])
        /\ ~(Earlier(p, q) /\ ~NccGreater(ncc[p], ncc[q]) /\ win[q] = win[p])

\* "if ncc > maxVal": p is kept at the end when no window has a greater
\* ncc and no earlier window has the same pixels, hence the same ncc.
\* (Windows of different pixels whose ncc are equal as fractions may differ
\* in float64 either way: each of them may be the one kept.)
Keeps(p, cands, ncc, win) ==
    \A q \in cands \ {p} :
        /\ ~NccGreater(ncc[q], ncc[p])
        /\ ~(Earlier(q, p) /\ ~NccGreater(ncc[p], ncc[q]) /\ win[q] = win[p])

\* templateMatchRGB(background, template): the points it can return
templateMatchRGB(background, template) ==
    LET bgW == Len(background[1])
        bgH == Len(background)
        tplW == Len(template[1])
        tplH == Len(template)
        tpl == Flatten(template)
        tplDev == Deviations(tpl)
        all == {[X |-> x, Y |-> y] : x \in 0..(bgW - tplW), y \in 0..(bgH - tplH)}
        win == [p \in all |-> Window(background, p.X, p.Y, tplW, tplH)]
        cands == {p \in all : ~Skips(win[p])}
        ncc == [p \in cands |-> Ncc(win[p], tplDev)]
    IN  IF tplW > bgW \/ tplH > bgH THEN {Origin}
        ELSE IF StdBelowOne(tpl) THEN {Origin}
        ELSE IF cands = {} THEN {Origin}
        ELSE {p \in cands : Keeps(p, cands, ncc, win)}

\* images of edge pixels: every w x h raster of 0 and 255
EdgeImages(w, h) == [1..h -> [1..w -> {0, 255}]]

\* the backgrounds: one or two rows, up to MaxBgW wide; the templates: up
\* to two by two
TmArgs ==
    UNION {[background : EdgeImages(bw, bh), template : EdgeImages(tw, th)] :
              bw \in 1..MaxBgW, bh \in 1..2, tw \in 1..2, th \in 1..2}

InitTm ==
    /\ OcrOff /\ NmsOff /\ DetOff /\ IouOff /\ CannyOff /\ SmOff /\ GapOff /\ ProbOff /\ RestOff
    /\ tmPc = "start"
    /\ tmIn \in TmArgs
    /\ tmRet = <<>>

TemplateMatch ==
    /\ tmPc = "start"
    /\ tmRet' \in templateMatchRGB(tmIn.background, tmIn.template)
    /\ tmPc' = "done"
    /\ UNCHANGED <<tmIn, notTmVars>>

NextTm == TemplateMatch

SpecTm == InitTm /\ [][NextTm]_vars

-----------------------------------------------------------------------------
(* SlideMatch and getTarget *)

\* an image that image.Decode rejects
Undecodable == [ok |-> FALSE, alpha |-> <<>>, grey |-> <<>>]

\* a decoded image: rows of alpha and rows of grey (alpha-premultiplied)
\* pixels
Decoded(alpha, grey) == [ok |-> TRUE, alpha |-> alpha, grey |-> grey]

\* the opaque pixels (alpha > 0) of an image, as <<localX, localY>>
Opaque(img) ==
    {c \in (0..(Len(img.alpha[1]) - 1)) \X (0..(Len(img.alpha) - 1)) :
        img.alpha[c[2] + 1][c[1] + 1] > 0}

SetMin(S) == CHOOSE v \in S : \A u \in S : v <= u

\* getTarget: the bounds of the opaque pixels, startX and startY from w
\* and h down, endX and endY from 0 up; an error when they span no
\* column or no row; the crop is [startX, endX) x [startY, endY)
getTarget(img) ==
    IF ~img.ok THEN [err |-> "decode", startX |-> 0, startY |-> 0, cropped |-> Undecodable]
    ELSE LET startX == SetMin({Len(img.alpha[1])} \cup {c[1] : c \in Opaque(img)})
             startY == SetMin({Len(img.alpha)} \cup {c[2] : c \in Opaque(img)})
             endX == SetMax({0} \cup {c[1] : c \in Opaque(img)})
             endY == SetMax({0} \cup {c[2] : c \in Opaque(img)})
         IN  IF startX >= endX \/ startY >= endY
             THEN [err |-> "region", startX |-> 0, startY |-> 0, cropped |-> Undecodable]
             ELSE [err |-> "nil", startX |-> startX, startY |-> startY,
                   cropped |-> Decoded(
                       [y \in 1..(endY - startY) |-> SubSeq(img.alpha[startY + y], startX + 1, endX)],
                       [y \in 1..(endY - startY) |-> SubSeq(img.grey[startY + y], startX + 1, endX)])]

\* the linking loop run until a pass changes nothing
RECURSIVE LinkAll(_, _, _)
LinkAll(st, w, h) ==
    LET next == LinkFrom(st, 0, w, h)
    IN  IF next.edge = st.edge THEN next ELSE LinkAll(next, w, h)

\* grayToRGB(cannyEdgeDetect(img, low, high)), as rows of grey pixels
CannyRows(grey, lowThreshold, highThreshold) ==
    LET h == Len(grey)
        w == Len(grey[1])
        suppressed == Suppress(grey, Magnitude(grey, w, h), w, h)
        result == LinkAll(Classify(suppressed, w, h, lowThreshold, highThreshold), w, h).result
    IN  [y \in 1..h |-> [x \in 1..w |-> result[y - 1][x - 1]]]

\* SlideMatch from the decoded template on: decode the background, edge
\* maps, template match, the result
MatchFrom(target, targetX, targetY, background) ==
    IF ~background.ok THEN {[res |-> <<>>, err |-> "decodeBackground"]}
    ELSE {[res |-> [TargetX |-> targetX, TargetY |-> targetY,
                    Target |-> <<maxLoc.X, maxLoc.Y,
                                 maxLoc.X + Len(target.grey[1]), maxLoc.Y + Len(target.grey)>>],
           err |-> "nil"] :
            maxLoc \in templateMatchRGB(CannyRows(background.grey, CannyLow, CannyHigh),
                                         CannyRows(target.grey, CannyLow, CannyHigh))}

\* the simpleTarget branch: the template is the decoded target image
SimpleMatch(target, background) ==
    IF ~target.ok THEN {[res |-> <<>>, err |-> "decodeTarget"]}
    ELSE MatchFrom(target, 0, 0, background)

\* getTarget's error is returned to the caller
ExtractErrorReturned(e) == [pc |-> "done", ret |-> [res |-> <<>>, err |-> e.err]]

\* on an error of getTarget: return d.SlideMatch(targetBytes, backgroundBytes, true)
ExtractError(e) == [pc |-> "retry", ret |-> <<>>]

\* the target images: three by three, each pixel opaque (grey 60) or
\* transparent, and one that does not decode
SlideTargets ==
    {Decoded(a, [y \in 1..3 |-> [x \in 1..3 |-> IF a[y][x] > 0 THEN 60 ELSE 0]]) :
        a \in [1..3 -> [1..3 -> {0, 255}]]} \cup {Undecodable}

\* the backgrounds: a dark image with a light square whose corner is at
\* (2, 2), the same with the corner at (1, 1), and one that does not decode
SlideBackgrounds ==
    { Decoded(<<>>, <<<<0, 0, 0, 0>>, <<0, 0, 0, 0>>, <<0, 0, 60, 60>>, <<0, 0, 60, 60>>>>),
      Decoded(<<>>, <<<<0, 0, 0, 0>>, <<0, 60, 60, 60>>, <<0, 60, 60, 60>>, <<0, 60, 60, 60>>>>),
      Undecodable }

InitSm ==
    /\ OcrOff /\ NmsOff /\ DetOff /\ IouOff /\ CannyOff /\ TmOff /\ GapOff /\ ProbOff /\ RestOff
    /\ smPc = "start"
    /\ smIn \in [target : SlideTargets, background : SlideBackgrounds, simpleTarget : BOOLEAN]
    /\ smCalls = <<>> /\ smExtract = <<>> /\ smRet = <<>>

\* SlideMatch(targetBytes, backgroundBytes, simpleTarget) as the caller
\* calls it
SlideMatch ==
    /\ smPc = "start"
    /\ smCalls' = Append(smCalls, smIn.simpleTarget)
    /\ IF smIn.simpleTarget
       THEN /\ smRet' \in SimpleMatch(smIn.target, smIn.background)
            /\ smPc' = "done"
            /\ UNCHANGED smExtract
       ELSE LET e == getTarget(smIn.target)
            IN  /\ smExtract' = e
                /\ IF e.err # "nil"
                   THEN /\ smPc' = ExtractError(e).pc
                        /\ smRet' = ExtractError(e).ret
                   ELSE /\ smRet' \in MatchFrom(e.cropped, e.startX, e.startY, smIn.background)
                        /\ smPc' = "done"
    /\ UNCHANGED <<smIn, notSmVars>>

\* the call SlideMatch makes of itself, with simpleTarget = true
SlideMatchRetry ==
    /\ smPc = "retry"
    /\ smCalls' = Append(smCalls, TRUE)
    /\ smRet' \in SimpleMatch(smIn.target, smIn.background)
    /\ smPc' = "done"
    /\ UNCHANGED <<smIn, smExtract, notSmVars>>

NextSm == SlideMatch \/ SlideMatchRetry

SpecSm == InitSm /\ [][NextSm]_vars

-----------------------------------------------------------------------------
(* SlideComparison: imageDifferenceRGB, binarizeRGB and findGapPython,      *)
(* ddddocr.go:1173-1321.  An image is a sequence of columns, a column a     *)
(* sequence of <<r, g, b>> pixels from the top                              *)

\* threshold := uint8(80), ddddocr.go:1201
GapThreshold == 80
\* findGapPython(binaryImg, 5), ddddocr.go:1204
GapMinCount == 5

\* bytes that image.Decode rejects, where an image is a sequence of columns
NoImage == <<>>

absDiff(a, b) == IF a > b THEN a - b ELSE b - a

\* imageDifferenceRGB(img1, img2) on images of the same size
imageDifferenceRGB(img1, img2) ==
    [x \in 1..Len(img1) |->
        [y \in 1..Len(img1[x]) |->
            <<absDiff(img1[x][y][1], img2[x][y][1]),
              absDiff(img1[x][y][2], img2[x][y][2]),
              absDiff(img1[x][y][3], img2[x][y][3])>>]]

binarizeRGB(img, threshold) ==
    [x \in 1..Len(img) |->
        [y \in 1..Len(img[x]) |->
            [c \in 1..3 |-> IF img[x][y][c] > threshold THEN 255 ELSE 0]]]

\* if count == 1 && startY == 0
CapturesRow(count, startY) == count = 1 /\ startY = 0

\* the inner loop of findGapPython over column x from row y on;
\* st = [count, startY, captures], captures being the history of the
\* assignments to startY, each as <<x, y>>
RECURSIVE ScanColumn(_, _, _, _)
ScanColumn(col, x, y, st) ==
    IF y >= Len(col) THEN st
    ELSE LET p == col[y + 1]
             nonBlack == p[1] # 0 \/ p[2] # 0 \/ p[3] # 0
             count == IF nonBlack THEN st.count + 1 ELSE st.count
             capture == nonBlack /\ CapturesRow(count, st.startY)
         IN  ScanColumn(col, x, y + 1,
                 [count    |-> count,
                  startY   |-> IF capture THEN y ELSE st.startY,
                  captures |-> IF capture THEN Append(st.captures, <<x, y>>)
                               ELSE st.captures])

\* the two ways a column's count can be compared with minCount
ReachesAbove(count, minCount) == count > minCount

\* if count >= minCount
Reaches(count, minCount) == count >= minCount

\* the outer loop of findGapPython from column x on; g = [startX, startY,
\* scanned, captures], scanned being the history of the columns examined
RECURSIVE ScanFrom(_, _, _, _)
ScanFrom(img, minCount, x, g) ==
    IF x >= Len(img) THEN g
    ELSE LET st == ScanColumn(img[x + 1], x, 0,
                       [count |-> 0, startY |-> g.startY, captures |-> g.captures])
             seen == [startX   |-> g.startX,
                      startY   |-> st.startY,
                      scanned  |-> Append(g.scanned, x),
                      captures |-> st.captures]
         IN  IF Reaches(st.count, minCount)
             THEN [seen EXCEPT !.startX = x + 2]
             ELSE ScanFrom(img, minCount, x + 1, seen)

findGapPython(img, minCount) ==
    ScanFrom(img, minCount, 0,
        [startX |-> 0, startY |-> 0, scanned |-> <<>>, captures |-> <<>>])

\* the widest image
MaxCols == 3
\* the height of the images
GapRows == 6

\* the target image has every pixel equal to this one
TargetPixel == <<100, 100, 100>>

\* a background pixel at row y: one that differs from the target by more
\* than the threshold in one channel, or one that differs by at most it
GapPixel(y, far) ==
    IF far
    THEN (IF y % 2 = 0 THEN <<19, 100, 100>> ELSE <<100, 100, 255>>)
    ELSE (IF y % 2 = 0 THEN TargetPixel ELSE <<20, 180, 100>>)

\* the rows (0-based) at which a column of the background differs
RowSets ==
    { {}, {0}, {3}, 1..(GapMinCount - 1), 1..GapMinCount, 0..(GapRows - 1) }

GapColumns == { [y \in 1..GapRows |-> GapPixel(y - 1, (y - 1) \in rs)] : rs \in RowSets }

GapImages(w) == [1..w -> GapColumns]

Plain(w) == [x \in 1..w |-> [y \in 1..GapRows |-> TargetPixel]]

\* the calls: backgrounds of every width with a target of the same width,
\* a narrower target for the widest ones, and bytes that do not decode
GapArgs ==
    UNION { [target : {Plain(w)}, background : GapImages(w)] : w \in 1..MaxCols }
    \cup [target : {Plain(1)}, background : GapImages(2)]
    \cup [target : {NoImage, Plain(1)}, background : {NoImage}]
    \cup [target : {NoImage}, background : {Plain(1)}]

\* resize.Resize(w, h, background, resize.Bilinear): some image of the
\* target's size
Resized(w) == GapImages(w)

InitGap ==
    /\ OcrOff /\ NmsOff /\ DetOff /\ IouOff /\ CannyOff /\ TmOff /\ SmOff /\ ProbOff /\ RestOff
    /\ gapPc = "start"
    /\ gapIn \in GapArgs
    /\ gapDiff = <<>> /\ gapScan = <<>> /\ gapRet = <<>>

\* SlideComparison(targetBytes, backgroundBytes)
SlideComparison ==
    /\ gapPc = "start"
    /\ gapPc' = "done"
    /\ IF gapIn.target = NoImage
       THEN /\ gapRet' = [res |-> <<>>, err |-> "decode target"]
            /\ UNCHANGED <<gapDiff, gapScan>>
       ELSE IF gapIn.background = NoImage
       THEN /\ gapRet' = [res |-> <<>>, err |-> "decode background"]
            /\ UNCHANGED <<gapDiff, gapScan>>
       ELSE \E background \in
                (IF Len(gapIn.target) # Len(gapIn.background)
                 THEN Resized(Len(gapIn.target)) ELSE {gapIn.background}) :
               LET diff == imageDifferenceRGB(background, gapIn.target)
                   binaryImg == binarizeRGB(diff, GapThreshold)
                   g == findGapPython(binaryImg, GapMinCount)
               IN  /\ gapDiff' = diff
                   /\ gapScan' = g
                   /\ gapRet' = [res |-> [Target |-> <<g.startX, g.startY>>], err |-> "nil"]
    /\ UNCHANGED <<gapIn, notGapVars>>

NextGap == SlideComparison

SpecGap == InitGap /\ [][NextGap]_vars

-----------------------------------------------------------------------------
(* ClassificationProbability, ddddocr.go:741-820, and softmax, 1525-1544 *)

\* decodeOutputFloatFast on a whole tensor, from timestep step on;
\* acc = [lastIdx, sb, reads], reads being the history of the offsets read
\* at each timestep
RECURSIVE DecodeFrom(_, _, _, _, _, _)
DecodeFrom(output, sh, cs, allowed, step, acc) ==
    IF step >= ShapeDims(sh).timesteps THEN acc
    ELSE LET numClasses == ShapeDims(sh).numClasses
             offset == Offset(sh, step)
             r == SubSeq(output, offset + 1, offset + numClasses)
             sel == SelectIndex(r, numClasses, offset, allowed)
             emit == Emits(sel.maxIdx, acc.lastIdx, Len(cs))
         IN  DecodeFrom(output, sh, cs, allowed, step + 1,
                 [lastIdx |-> NextLastIdx(sel.maxIdx, acc.lastIdx, Len(cs)),
                  sb      |-> IF emit THEN Append(acc.sb, At(cs, sel.maxIdx)) ELSE acc.sb,
                  reads   |-> Append(acc.reads, sel.reads)])

decodeOutputFloatFast(output, sh, cs, allowed) ==
    IF ShapeDims(sh).ok
    THEN DecodeFrom(output, sh, cs, allowed, 0, [lastIdx |-> -1, sb |-> <<>>, reads |-> <<>>])
    ELSE [lastIdx |-> -1, sb |-> <<>>, reads |-> <<>>]

\* softmax in float32.  A score is an integer in units of 1e-9 (1.0 is
\* 1000000000); a float32 in [2^-4, 4] is an integer in units of 2^-25
\* (the exponentials and their sum) or 2^-27 (the quotients).

\* (altered) every exponential taken as exp(0)
ExpShiftedFlat(v, maxVal) == 2^25

\* float32(math.Exp(float64(v - maxVal))) in units of 2^-25, for the
\* scores of the model: the float32 difference of two scores below 3e-8
\* that differ by 1e-9 or 2.9e-8 has an exponential within half an ulp
\* (2^-25) of 1.0; 1e-9 - 1.0 and 3e-8 - 1.0 round to -1.0 and to
\* -0.99999994, whose exponentials both round to 0.36787945
ExpShifted(v, maxVal) ==
    CASE v - maxVal = 0 -> 2^25
      [] v - maxVal = -1 -> 2^25
      [] v - maxVal = -29 -> 2^25
      [] v - maxVal = -30 -> 2^25 - 2
      [] v - maxVal = -999999970 -> 12343986
      [] v - maxVal = -999999999 -> 12343986
      [] v - maxVal = -1000000000 -> 12343986

\* the spacing of the float32 values around s, in the units of s
RECURSIVE Ulp(_)
Ulp(s) == IF s < 2^24 THEN 1 ELSE 2 * Ulp(s \div 2)

\* s rounded to a multiple of q, ties to the even multiple
RoundEven(s, q) ==
    LET lo == (s \div q) * q
        r == s - lo
    IN  IF 2 * r < q THEN lo
        ELSE IF 2 * r > q THEN lo + q
        ELSE IF (lo \div q) % 2 = 0 THEN lo ELSE lo + q

\* sum += output[i], in float32
AddF32(a, b) == RoundEven(a + b, Ulp(a + b))

RECURSIVE SumF32(_, _, _)
SumF32(e, i, sum) == IF i > Len(e) THEN sum ELSE SumF32(e, i + 1, AddF32(sum, e[i]))

\* n doubled until n / d is in [1, 2): [n, e], e the number of doublings
RECURSIVE Normalise(_, _, _)
Normalise(n, d, e) == IF n >= d THEN [n |-> n, e |-> e] ELSE Normalise(2 * n, d, e + 1)

\* k more bits of the quotient (r + m * d) / d by long division: [m, r]
RECURSIVE DivBits(_, _, _, _)
DivBits(r, d, k, m) ==
    IF k = 0 THEN [m |-> m, r |-> r]
    ELSE IF 2 * r >= d THEN DivBits(2 * r - d, d, k - 1, 2 * m + 1)
         ELSE DivBits(2 * r, d, k - 1, 2 * m)

\* output[i] /= sum in float32: the quotient n / d (0 < n <= d, both in the
\* same unit) rounded to 24 significant bits, ties to even, in units of
\* 2^-27 (exact for a quotient of at least 2^-4)
DivF32(n, d) ==
    LET nm == Normalise(n, d, 0)
        q == DivBits(nm.n - d, d, 23, 1)
        up == 2 * q.r > d \/ (2 * q.r = d /\ q.m % 2 = 1)
        m == IF up THEN q.m + 1 ELSE q.m
    IN  IF nm.e <= 4 THEN m * 2^(4 - nm.e) ELSE m \div 2^(nm.e - 4)

\* maxVal after `for _, v := range input[1:]`
RECURSIVE MaxFrom(_, _, _)
MaxFrom(input, i, maxVal) ==
    IF i > Len(input) THEN maxVal
    ELSE MaxFrom(input, i + 1, IF input[i] > maxVal THEN input[i] ELSE maxVal)

\* softmax(input) for a non-empty input
softmax(input) ==
    LET maxVal == MaxFrom(input, 2, input[1])
        e == [i \in 1..Len(input) |-> ExpShifted(input[i], maxVal)]
        sum == SumF32(e, 1, 0)
    IN  [i \in 1..Len(input) |-> DivF32(e[i], sum)]

\* data[offset : offset+numClasses] with offset := t * numClasses
ProbRow(data, sh, step) == SubSeq(data, step * sh[3] + 1, step * sh[3] + sh[3])

\* var charsets []string: the symbols at the allowed indices when a range
\* is set (the zero string for an index beyond the charset), else d.charsets
EffectiveCharsets(cs, allowed) ==
    IF Len(allowed.elems) > 0
    THEN [i \in 1..Len(allowed.elems) |->
             IF allowed.elems[i] < Len(cs) THEN At(cs, allowed.elems[i]) ELSE ""]
    ELSE cs

\* the scores of the model's output tensors
ProbScores == {0, 1000000000}

\* the output tensors: [T,B,C] with B = 1 and B = 2, and a [T,C] one
ProbShapes == {<<1, 1, 2>>, <<2, 1, 3>>, <<2, 2, 2>>, <<2, 3>>}

Product(sh) == IF Len(sh) = 3 THEN sh[1] * sh[2] * sh[3] ELSE sh[1] * sh[2]

ProbTensors ==
    UNION { [shape : {sh}, data : [1..Product(sh) -> ProbScores]] : sh \in ProbShapes }

ProbIdle == probPc = "idle" /\ probIn = <<>> /\ probReads = <<>> /\ probRet = <<>>

InitProb ==
    /\ NewInstance /\ NmsOff /\ DetOff /\ IouOff /\ SlideOff /\ RestOff
    /\ ProbIdle

\* ClassificationProbability(imageData); tensor is the session's output
ClassificationProbability(outcome, tensor) ==
    /\ probPc = "idle"
    /\ probPc' = "done"
    /\ probIn' = [outcome |-> outcome, tensor |-> tensor]
    /\ IF isDetMode
       THEN /\ probRet' = [res |-> <<>>, err |-> "detMode", panic |-> FALSE]
            /\ UNCHANGED probReads
       ELSE IF outcome # "ok"
       THEN /\ probRet' = [res |-> <<>>, err |-> outcome, panic |-> FALSE]
            /\ UNCHANGED probReads
       ELSE IF Len(tensor.shape) < 3
       THEN /\ probRet' = [res |-> <<>>, err |-> "nil", panic |-> TRUE]
            /\ UNCHANGED probReads
       ELSE LET timesteps == tensor.shape[1]
                probability == [k \in 1..timesteps |->
                                   softmax(ProbRow(tensor.data, tensor.shape, k - 1))]
                dec == decodeOutputFloatFast(tensor.data, tensor.shape, charsets, allowedIndices)
            IN  /\ probReads' = dec.reads
                /\ probRet' = [res |-> [Text |-> dec.sb,
                                        Charsets |-> EffectiveCharsets(charsets, allowedIndices),
                                        Probability |-> probability],
                               err |-> "nil", panic |-> FALSE]
    /\ UNCHANGED <<ocrVars, nmsVars, detVars, iouVars, slideVars, restVars>>

\* the caller takes the result; the instance is ready for the next call
ProbTakeResult ==
    /\ probPc = "done"
    /\ probPc' = "idle" /\ probIn' = <<>> /\ probReads' = <<>> /\ probRet' = <<>>
    /\ UNCHANGED <<ocrVars, nmsVars, detVars, iouVars, slideVars, restVars>>

NextProb ==
    \/ probPc = "idle" /\ \E val \in RangeArgs : SetRanges(val) /\ UNCHANGED lastCall
    \/ probPc = "idle" /\ ClearRanges /\ UNCHANGED lastCall
    \/ \E outcome \in Outcomes :
          \E tensor \in (IF outcome = "ok" THEN ProbTensors ELSE {[shape |-> <<>>, data |-> <<>>]}) :
              ClassificationProbability(outcome, tensor)
    \/ ProbTakeResult

\* ClassificationProbability on an instance whose range is set and cleared
SpecProb == InitProb /\ [][NextProb]_vars

-----------------------------------------------------------------------------
(* demoPostprocess as a call on a drawn tensor *)

\* the input size of the calls: the smallest with a cell of every stride
PostSize == 32

\* the output records of the model, without their class scores: an object
\* in the middle of its cell, one off centre and larger, and nothing
PostRecs == { <<500, 500, 0, 0, 1000>>, <<1000, 0, 500, 1000, 500>>, <<0, 0, 0, 0, 0>> }

\* the class scores of a record of K classes
PostClasses(K) == {[j \in 1..K |-> IF j = hot THEN 1000 ELSE 500] : hot \in 1..K}

\* the tensors for N anchors and K classes: one record differs from the
\* others, at every anchor
PostTensors(N, K) ==
    { Flatten([k \in 1..N |-> IF k = a THEN one \o c ELSE rest \o c]) :
        a \in 1..N, one \in PostRecs, rest \in PostRecs, c \in PostClasses(K) }

PostArgs ==
    UNION { [outputs : PostTensors(Len(Grids(PostSize)), K), imgSize : {PostSize}] : K \in 1..2 }

InitPost ==
    /\ OcrOff /\ NmsOff /\ DetOff /\ IouOff /\ SlideOff /\ ProbOff
    /\ SfOff /\ LateOff
    /\ postPc = "start"
    /\ postIn \in PostArgs
    /\ postRet = <<>>

PostprocessCall ==
    /\ postPc = "start"
    /\ postRet' = demoPostprocess(postIn.outputs, postIn.imgSize)
    /\ postPc' = "done"
    /\ UNCHANGED <<postIn, coreVars, sfVars, lateVars>>

NextPost == PostprocessCall

SpecPost == InitPost /\ [][NextPost]_vars

-----------------------------------------------------------------------------
(* softmax as a call on a drawn row *)

\* the longest score row
MaxRowLen == 3

\* the scores: 0, 1e-9, 3e-8 and 1.0
SoftmaxScores == {0, 1, 30, 1000000000}

SoftmaxRows == UNION { [1..n -> SoftmaxScores] : n \in 1..MaxRowLen }

InitSoftmax ==
    /\ OcrOff /\ NmsOff /\ DetOff /\ IouOff /\ SlideOff /\ ProbOff
    /\ PostOff /\ LateOff
    /\ sfPc = "start"
    /\ sfIn \in SoftmaxRows
    /\ sfRet = <<>>

SoftmaxCall ==
    /\ sfPc = "start"
    /\ sfRet' = softmax(sfIn)
    /\ sfPc' = "done"
    /\ UNCHANGED <<sfIn, coreVars, postVars, lateVars>>

NextSoftmax == SoftmaxCall

SpecSoftmax == InitSoftmax /\ [][NextSoftmax]_vars

-----------------------------------------------------------------------------
(* New, Close and the mode checks of the methods *)

\* the New calls of a run
MaxNews == 2

\* the Close calls on one instance
MaxCloses == 2

\* nothing but the instances' life cycle is under way
NotLifeOff ==
    /\ OcrOff /\ NmsOff /\ DetOff /\ IouOff /\ SlideOff /\ ProbOff /\ SfOff /\ PostOff
    /\ PoolOff /\ ConcOff

\* nothing but the pool is under way
NotPoolOff ==
    /\ OcrOff /\ NmsOff /\ DetOff /\ IouOff /\ SlideOff /\ ProbOff /\ SfOff /\ PostOff
    /\ LifeOff /\ ConcOff

\* a nil pointer to a session or to session options
NilRes == [nil |-> TRUE, destroyed |-> 0]

\* a session or session options as the runtime library creates them;
\* destroyed counts the Destroy calls made on the object
LiveRes == [nil |-> FALSE, destroyed |-> 0]

\* the options of New: Ocr and Det (ImportOnnxPath empty, AutoDownload off)
NewOptions == [Ocr : BOOLEAN, Det : BOOLEAN]

\* what the runtime library's calls in an init function do: all succeed, or
\* the session cannot be created
LibOutcomes == {"ok", "session"}

\* initOnnxRuntime: the function given to initOnce.Do runs on the first
\* call only; initErr is a local of each call, nil unless this call ran it
initOnnxRuntime(fails) ==
    IF initOnce THEN [ran |-> FALSE, err |-> "nil"]
    ELSE [ran |-> TRUE, err |-> IF fails THEN "init" ELSE "nil"]

\* the instance New builds after initOnnxRuntime: detection mode before
\* OCR mode, else slide mode, which loads no model; a session error
\* destroys the options and returns no instance
InitMode(opts, lib) ==
    IF opts.Det
    THEN IF lib = "ok"
         THEN [err |-> "nil",
               inst |-> [isOcrMode |-> FALSE, isDetMode |-> TRUE, session |-> NilRes,
                         options |-> NilRes, detSession |-> LiveRes, detOptions |-> LiveRes]]
         ELSE [err |-> lib, inst |-> <<>>]
    ELSE IF opts.Ocr
    THEN IF lib = "ok"
         THEN [err |-> "nil",
               inst |-> [isOcrMode |-> TRUE, isDetMode |-> FALSE, session |-> LiveRes,
                         options |-> LiveRes, detSession |-> NilRes, detOptions |-> NilRes]]
         ELSE [err |-> lib, inst |-> <<>>]
    ELSE [err |-> "nil",
          inst |-> [isOcrMode |-> FALSE, isDetMode |-> FALSE, session |-> NilRes,
                    options |-> NilRes, detSession |-> NilRes, detOptions |-> NilRes]]

\* before the first New of the process
InitLife ==
    /\ NotLifeOff
    /\ lifePc = "run"
    /\ initOnce = FALSE /\ onnxRuntimePath = "" /\ envInits = 0 /\ envErr = FALSE
    /\ insts = <<>> /\ newRets = <<>> /\ opRet = <<>>

\* New(opts); fails says whether ort.InitializeEnvironment returns an error
\* when it is called, lib what the library does in the init function
New(opts, fails, lib) ==
    /\ lifePc = "run"
    /\ Len(newRets) < MaxNews
    /\ LET init == initOnnxRuntime(fails)
           made == InitMode(opts, lib)
       IN  /\ onnxRuntimePath' = "set"
           /\ initOnce' = TRUE
           /\ envInits' = envInits + (IF init.ran THEN 1 ELSE 0)
           /\ envErr' = (envErr \/ init.err # "nil")
           /\ IF init.err # "nil"
              THEN /\ newRets' = Append(newRets, [opts |-> opts, err |-> "init", inst |-> 0])
                   /\ UNCHANGED insts
              ELSE IF made.err # "nil"
              THEN /\ newRets' = Append(newRets, [opts |-> opts, err |-> made.err, inst |-> 0])
                   /\ UNCHANGED insts
              ELSE /\ insts' = Append(insts, made.inst)
                   /\ newRets' = Append(newRets, [opts |-> opts, err |-> "nil",
                                                  inst |-> Len(insts) + 1])
    /\ UNCHANGED <<lifePc, opRet, notLifeVars>>

\* what session.Run is called on
RunOn(r) == IF r.nil THEN "nil" ELSE IF r.destroyed > 0 THEN "destroyed" ELSE "live"

\* a method's call: the early return it took ("mode", "decode") or
\* "passed", and what Run was called on ("none" if it was not called)
Called(op, i, check, ran) == [op |-> op, inst |-> i, check |-> check, ran |-> ran]

\* ClassificationWithOptions and ClassificationProbability: the isDetMode
\* check, image.Decode, then d.session.Run
ClassifyOn(op, i, decodes) ==
    /\ lifePc = "run"
    /\ i \in 1..Len(insts)
    /\ opRet' = IF insts[i].isDetMode THEN Called(op, i, "mode", "none")
                ELSE IF ~decodes THEN Called(op, i, "decode", "none")
                ELSE Called(op, i, "passed", RunOn(insts[i].session))
    /\ UNCHANGED <<lifePc, initOnce, onnxRuntimePath, envInits, envErr, insts, newRets,
                   notLifeVars>>

ClassificationOn(i, decodes) == ClassifyOn("Classification", i, decodes)

ClassificationProbabilityOn(i, decodes) == ClassifyOn("ClassificationProbability", i, decodes)

\* Detection: the !isDetMode check, decodeImageCV, then d.detSession.Run
DetectionOn(i, decodes) ==
    /\ lifePc = "run"
    /\ i \in 1..Len(insts)
    /\ opRet' = IF ~insts[i].isDetMode THEN Called("Detection", i, "mode", "none")
                ELSE IF ~decodes THEN Called("Detection", i, "decode", "none")
                ELSE Called("Detection", i, "passed", RunOn(insts[i].detSession))
    /\ UNCHANGED <<lifePc, initOnce, onnxRuntimePath, envInits, envErr, insts, newRets,
                   notLifeVars>>

\* (altered) Destroy of an object that is destroyed already does nothing
DestroyOnce(r) == IF r.nil \/ r.destroyed > 0 THEN r ELSE [r EXCEPT !.destroyed = 1]

\* "if x != nil { x.Destroy() }"
DestroyIfSet(r) == IF r.nil THEN r ELSE [r EXCEPT !.destroyed = @ + 1]

\* the four objects of an instance
Resources == {"session", "options", "detSession", "detOptions"}

\* Close: Destroy on each of the four pointers that is not nil; the
\* pointers are left as they are
Close(i) ==
    /\ lifePc = "run"
    /\ i \in 1..Len(insts)
    /\ \A f \in Resources : insts[i][f].destroyed < MaxCloses
    /\ insts' = [insts EXCEPT ![i] = [f \in DOMAIN insts[i] |->
                    IF f \in Resources THEN DestroyIfSet(insts[i][f]) ELSE insts[i][f]]]
    /\ opRet' = Called("Close", i, "passed", "none")
    /\ UNCHANGED <<lifePc, initOnce, onnxRuntimePath, envInits, envErr, newRets,
                   notLifeVars>>

NextLife ==
    \/ \E opts \in NewOptions, fails \in BOOLEAN, lib \in LibOutcomes : New(opts, fails, lib)
    \/ \E i \in 1..MaxNews, decodes \in BOOLEAN : ClassificationOn(i, decodes)
    \/ \E i \in 1..MaxNews, decodes \in BOOLEAN : ClassificationProbabilityOn(i, decodes)
    \/ \E i \in 1..MaxNews, decodes \in BOOLEAN : DetectionOn(i, decodes)
    \/ \E i \in 1..MaxNews : Close(i)

SpecLife == InitLife /\ [][NextLife]_vars

-----------------------------------------------------------------------------
(* OcrPool and the goroutines that use it *)

\* the pool's size, the goroutines and the iterations of each
PoolSize == 2

PoolWorkers == 3

PoolIters == 2

\* (altered) a receive that leaves the instance in the buffer
ReceivedKept(ch) == [value |-> Head(ch), rest |-> ch]

\* "<-p.pool" on a buffer that is not empty: the oldest instance leaves it
Received(ch) == [value |-> Head(ch), rest |-> Tail(ch)]

\* NewOcrPool(size) has returned: size instances in the buffer; the
\* goroutines of testInstancePool are about to start
InitPool ==
    /\ NotPoolOff
    /\ poolPc = "run"
    /\ poolChan = [k \in 1..PoolSize |-> k]
    /\ workers = [w \in 1..PoolWorkers |-> [pc |-> "get", ocr |-> 0, j |-> 0]]
    /\ poolCloses = [k \in 1..PoolSize |-> 0]

\* ocr := pool.Get(): the receive blocks while the buffer is empty
PoolGet(w) ==
    /\ poolPc = "run"
    /\ workers[w].pc = "get"
    /\ Len(poolChan) > 0
    /\ workers' = [workers EXCEPT ![w].ocr = Received(poolChan).value, ![w].pc = "use"]
    /\ poolChan' = Received(poolChan).rest
    /\ UNCHANGED <<poolPc, poolCloses, notPoolVars>>

\* ocr.Classification(imageData)
PoolUse(w) ==
    /\ poolPc = "run"
    /\ workers[w].pc = "use"
    /\ workers' = [workers EXCEPT ![w].pc = "put"]
    /\ UNCHANGED <<poolPc, poolChan, poolCloses, notPoolVars>>

\* pool.Put(ocr): the send blocks while the buffer is full; then the next
\* iteration, or the goroutine ends
PoolPut(w) ==
    /\ poolPc = "run"
    /\ workers[w].pc = "put"
    /\ Len(poolChan) < PoolSize
    /\ poolChan' = Append(poolChan, workers[w].ocr)
    /\ workers' = [workers EXCEPT ![w].ocr = 0, ![w].j = @ + 1,
                                  ![w].pc = IF workers[w].j + 1 < PoolIters THEN "get" ELSE "done"]
    /\ UNCHANGED <<poolPc, poolCloses, notPoolVars>>

\* the deferred pool.Close() after wg.Wait(): close(p.pool), then Close on
\* every instance left in the buffer
PoolClose ==
    /\ poolPc = "run"
    /\ \A w \in DOMAIN workers : workers[w].pc = "done"
    /\ poolCloses' = [k \in DOMAIN poolCloses |->
                         poolCloses[k] + Cardinality({n \in DOMAIN poolChan : poolChan[n] = k})]
    /\ poolChan' = <<>>
    /\ poolPc' = "closed"
    /\ UNCHANGED <<workers, notPoolVars>>

NextPool ==
    \/ \E w \in 1..PoolWorkers : PoolGet(w)
    \/ \E w \in 1..PoolWorkers : PoolUse(w)
    \/ \E w \in 1..PoolWorkers : PoolPut(w)
    \/ PoolClose

SpecPool == InitPool /\ [][NextPool]_vars

-----------------------------------------------------------------------------
(* The core functions run by goroutines at the same time *)

\* the goroutines: a Classification that has reached the decoder on
\* instance A, a SetRanges or ClearRanges call, a multiclassNMS call and a
\* SlideComparison that has reached findGapPython
Goroutines == {"decode", "ranges", "nms", "gap"}

\* (altered) the range call is made on the instance the decoder runs on
RangesOnDecoders == "A"

\* the instance the range call is made on
RangesOn == "B"

\* the decoder's tensors: two timesteps of three classes
ConcTensors ==
    { [shape |-> <<2, 1, 3>>, data |-> <<0, 1000000000, 0, 0, 0, 1000000000>>],
      [shape |-> <<2, 1, 3>>, data |-> <<0, 0, 1000000000, 0, 0, 1000000000>>] }

\* the range calls
ConcCalls ==
    { [op |-> "SetRanges", val |-> IntVal(RangeDigit)],
      [op |-> "SetRanges", val |-> StringVal(<<"a">>)],
      [op |-> "ClearRanges", val |-> OtherVal] }

\* the inputs of the four goroutines, each its own
ConcInputs ==
    [tensor : ConcTensors,
     call : ConcCalls,
     nms : {a \in NmsArgs : Len(a.preds) = 1 /\ a.ratio.n = 1 /\ a.nmsThr = DetNmsThr},
     gap : GapImages(1)]

\* the two instances: the same charset, a range set or not
ConcHeaps ==
    [A : [charsets : {<<"", "1", "a">>}, allowedIndices : {NilSlice, Slice(<<0, 1>>)}],
     B : [charsets : {<<"", "1", "a">>}, allowedIndices : {NilSlice, Slice(<<0, 2>>)}]]

\* the fields and buffers a goroutine reads when it starts: the decoder
\* is passed d.charsets and d.allowedIndices, SetRanges looks its
\* characters up in d.charsets and d.charIndexMap, and every function
\* reads its own input
ReadsOf(p, in) ==
    {<<p, "input">>} \cup
    CASE p = "decode" -> {<<"A", "charsets">>, <<"A", "allowedIndices">>}
      [] p = "ranges" -> IF in.call.op = "SetRanges"
                         THEN {<<RangesOn, "charsets">>, <<RangesOn, "charIndexMap">>}
                         ELSE {}
      [] OTHER -> {}

\* the fields a goroutine writes when it ends: d.allowedIndices of the
\* instance of the range call
WritesOf(p) == IF p = "ranges" THEN {<<RangesOn, "allowedIndices">>} ELSE {}

\* what a goroutine keeps of the fields it has read
LocalOf(p, heap) ==
    CASE p = "decode" -> heap.A
      [] p = "ranges" -> heap[RangesOn]
      [] OTHER -> <<>>

\* the results a goroutine can compute from its input and its locals
ResultsOf(p, in, local) ==
    CASE p = "decode" ->
            {decodeOutputFloatFast(in.tensor.data, in.tensor.shape,
                                   local.charsets, local.allowedIndices).sb}
      [] p = "ranges" ->
            {IF in.call.op = "SetRanges" THEN SetRangesResult(local.charsets, in.call.val)
             ELSE NilSlice}
      [] p = "nms" ->
            {out.result : out \in multiclassNMS(in.nms.preds, in.nms.ratio, in.nms.origW,
                                                 in.nms.origH, in.nms.nmsThr, in.nms.scoreThr)}
      [] OTHER ->
            {LET g == findGapPython(
                          binarizeRGB(imageDifferenceRGB(in.gap, Plain(1)), GapThreshold),
                          GapMinCount)
             IN  <<g.startX, g.startY>>}

\* the goroutines are about to start
InitConc ==
    /\ OcrOff /\ NmsOff /\ DetOff /\ IouOff /\ SlideOff /\ ProbOff /\ SfOff /\ PostOff
    /\ LifeOff /\ PoolOff
    /\ concPc = "run"
    /\ concIn \in ConcInputs
    /\ concHeap \in ConcHeaps
    /\ concHeap0 = concHeap
    /\ procs = [p \in Goroutines |-> [pc |-> "start", local |-> <<>>, ret |-> <<>>]]
    /\ accesses = {}

\* a goroutine's function is entered: it reads the fields it is passed
ConcEnter(p) ==
    /\ concPc = "run"
    /\ procs[p].pc = "start"
    /\ procs' = [procs EXCEPT ![p].pc = "run", ![p].local = LocalOf(p, concHeap)]
    /\ accesses' = accesses \cup {<<p, loc, "r">> : loc \in ReadsOf(p, concIn)}
    /\ UNCHANGED <<concPc, concIn, concHeap, concHeap0, notConcVars>>

\* a goroutine's function runs to its return; the range call assigns
\* d.allowedIndices
ConcReturn(p) ==
    /\ concPc = "run"
    /\ procs[p].pc = "run"
    /\ \E r \in ResultsOf(p, concIn, procs[p].local) :
          /\ procs' = [procs EXCEPT ![p].pc = "done", ![p].ret = r]
          /\ concHeap' = IF p = "ranges"
                         THEN [concHeap EXCEPT ![RangesOn].allowedIndices = r]
                         ELSE concHeap
    /\ accesses' = accesses \cup {<<p, loc, "w">> : loc \in WritesOf(p)}
    /\ UNCHANGED <<concPc, concIn, concHeap0, notConcVars>>

NextConc ==
    \/ \E p \in Goroutines : ConcEnter(p)
    \/ \E p \in Goroutines : ConcReturn(p)

SpecConc == InitConc /\ [][NextConc]_vars

-----------------------------------------------------------------------------
(* Claims about the sequence decoder and the range selector *)

\* the indices a path emits by the collapse rule: position k emits iff its
\* index differs from the one before it (none before the first), is not 0
\* and is below charsetLen
RECURSIVE CollapseFrom(_, _, _)
CollapseFrom(p, k, charsetLen) ==
    IF k > Len(p) THEN <<>>
    ELSE (IF /\ (k = 1 \/ p[k] # p[k - 1])
             /\ p[k] # 0
             /\ p[k] < charsetLen
          THEN <<p[k]>> ELSE <<>>)
         \o CollapseFrom(p, k + 1, charsetLen)

\* C1: the decoder emits charsets[idx] at a timestep exactly when idx
\* differs from the index of the previous timestep, idx # 0 and
\* idx < charsetLen; lastIdx follows the selected index at every timestep;
\* so [a,a,a] emits a once, [a,a,0,a] emits it twice, and index 0 is never
\* emitted.
C1_CollapseRule ==
    /\ Len(path) = t
    /\ emitted = CollapseFrom(path, 1, Len(charsets))
    /\ sb = [k \in 1..Len(emitted) |-> At(charsets, emitted[k])]
    /\ lastIdx = (IF path = <<>> THEN -1 ELSE path[Len(path)])
    /\ \A k \in 1..Len(emitted) : emitted[k] # 0
    /\ (path = <<1, 1, 1>> => emitted = <<1>>)
    /\ (path = <<1, 1, 0, 1>> => emitted = <<1, 1>>)
    /\ (pc = "returned" /\ path # <<>> => ret = [text |-> sb, err |-> "nil"])

C1_Witness ==
    /\ pc = "returned"
    /\ path = <<1, 1, 0, 1>>
    /\ ret.text = <<"1", "1">>

\* the classes the scan visits, in scan order
ScanOrder(numClasses, allowed) ==
    IF Len(allowed.elems) > 0
    THEN SelectSeq(allowed.elems, LAMBDA c : c < numClasses)
    ELSE [i \in 1..numClasses |-> i - 1]

\* the first class in scan order that holds the maximum score
FirstMax(r, order) ==
    LET best == SetMax({At(r, order[i]) : i \in 1..Len(order)})
        first == CHOOSE i \in 1..Len(order) :
                    /\ At(r, order[i]) = best
                    /\ \A j \in 1..(i - 1) : At(r, order[j]) # best
    IN  order[first]

\* C2: among the eligible classes that share the maximum score of a
\* timestep the decoder selects the first in scan order (the lowest index,
\* or the first in the order of the allowed list).
C2_FirstMaxWins ==
    (pc # "idle" /\ path # <<>>) =>
        path[Len(path)] = FirstMax(row, ScanOrder(ShapeDims(shape).numClasses, allowedIndices))

\* C3: with a non-empty allowed list every selected index is in the list,
\* every decoded symbol is charsets[i] for an i of the list, and only
\* entries of allowed indices below the class count are read.
C3_AllowedOnly ==
    (Len(allowedIndices.elems) > 0 /\ pc # "idle") =>
        /\ \A k \in 1..Len(path) : path[k] \in Range(allowedIndices.elems)
        /\ \A k \in 1..Len(emitted) : emitted[k] \in Range(allowedIndices.elems)
        /\ \A k \in 1..Len(sb) :
              \E i \in Range(allowedIndices.elems) :
                  i < Len(charsets) /\ sb[k] = At(charsets, i)
        /\ path # <<>> =>
              reads = {Offset(shape, t - 1) + c :
                         c \in {i \in Range(allowedIndices.elems) :
                                   i < ShapeDims(shape).numClasses}}

C3_Witness ==
    /\ pc = "returned"
    /\ \E c \in Range(allowedIndices.elems) : c >= ShapeDims(shape).numClasses
    /\ ret.text = <<"1">>
    /\ t = MaxT

\* C4: the allowed list is absent (nil) or a list whose first element is
\* 0; it is absent only initially, after ClearRanges, or after SetRanges
\* with an unrecognised preset integer or an argument that is neither int
\* nor string.
C4_RangeInvariant ==
    /\ \/ allowedIndices = NilSlice
       \/ /\ ~allowedIndices.nil
          /\ Len(allowedIndices.elems) >= 1
          /\ allowedIndices.elems[1] = 0
    /\ allowedIndices.nil <=>
          \/ lastCall.op \in {"New", "ClearRanges"}
          \/ /\ lastCall.op = "SetRanges"
             /\ \/ lastCall.val.type = "int"
                      /\ lastCall.val.v \notin RangeDigit..RangeNonAlphaNum
                \/ lastCall.val.type \notin {"int", "string"}

C4_Witness ==
    /\ lastCall = [op |-> "SetRanges", val |-> StringVal(<<"?">>)]
    /\ allowedIndices = Slice(<<0>>)

\* C5: a score tensor whose shape has neither 2 nor 3 dimensions makes
\* Classification return a non-nil error and no text.
C5_BadShapeIsError ==
    (pc = "returned" /\ shape # <<>> /\ ~ShapeDims(shape).ok) => ret.err # "nil"

-----------------------------------------------------------------------------
(* Claims about the detection postprocessor *)

\* the output length fits no class count K >= 0: it is not
\* (5 + K) x (number of anchors)
LengthMismatch(outputs) ==
    LET numAnchors == Len(Grids(InputSize))
    IN  Len(outputs) % numAnchors # 0 \/ Len(outputs) \div numAnchors < 5

\* C6: for an output whose length is not (5+K) x (number of anchors) the
\* detection postprocessor reports a fatal input-shape error (an error
\* returned, or a panic) and returns no boxes.
C6_MismatchIsFatal ==
    (detPc = "done" /\ isDetMode /\ detIn.outcome = "ok" /\ LengthMismatch(detIn.tensor)) =>
        /\ detRet.panic \/ detRet.err # "nil"
        /\ detRet.boxes = <<>>

\* C7: no two boxes of the list multiclassNMS returns have an IoU (by
\* computeIoU) greater than nmsThreshold.
C7_NoOverlapLeft ==
    nmsPc = "done" =>
        \A i, j \in 1..Len(nmsResult) :
            i # j => ~IoUAbove(computeIoU(nmsResult[i], nmsResult[j]), nmsIn.nmsThr)

C7_Witness ==
    /\ nmsPc = "done"
    /\ Len(nmsDets) = 3
    /\ nmsIn.nmsThr = DetNmsThr
    /\ nmsKept = <<1, 3>>
    /\ computeIoU(nmsResult[1], nmsResult[2]).n > 0

\* C8: before suppression the surviving detections are in descending order
\* of score and detections of equal score keep their anchor order.
C8_StableOrder ==
    nmsPc = "done" =>
        \A i, j \in 1..Len(nmsDets) :
            i < j => \/ nmsDets[i].score > nmsDets[j].score
                     \/ /\ nmsDets[i].score = nmsDets[j].score
                        /\ nmsDets[i].src < nmsDets[j].src

\* C9: every box returned is well formed and inside the image:
\* 0 <= x1 <= x2 <= origW and 0 <= y1 <= y2 <= origH.
C9_BoxesClipped ==
    nmsPc = "done" =>
        \A i \in 1..Len(nmsResult) :
            LET b == nmsResult[i]
            IN  /\ 0 <= b.X1 /\ b.X1 <= b.X2 /\ b.X2 <= nmsIn.origW
                /\ 0 <= b.Y1 /\ b.Y1 <= b.Y2 /\ b.Y2 <= nmsIn.origH

\* the unit cells [x, x+1) x [y, y+1) a box covers
Cells(b) ==
    {<<x, y>> \in (0..(MaxCoord - 1)) \X (0..(MaxCoord - 1)) :
        b.X1 <= x /\ x < b.X2 /\ b.Y1 <= y /\ y < b.Y2}

\* C10 as claimed: computeIoU is 1.0 for any two identical boxes and 0.0
\* for any two boxes that do not overlap.
C10_IoUAsClaimed ==
    iouPc = "done" =>
        /\ iouIn.a = iouIn.b => iouRet.n = iouRet.d
        /\ Cells(iouIn.a) \cap Cells(iouIn.b) = {} => iouRet.n = 0

\* C10 as amended: computeIoU is 1.0 for two identical boxes of positive
\* width and height, 0.0 for two identical boxes without area, and 0.0
\* for any two boxes that do not overlap.
C10_IoU ==
    iouPc = "done" =>
        /\ iouRet.d > 0
        /\ (iouIn.a = iouIn.b /\ Cells(iouIn.a) # {}) => iouRet.n = iouRet.d
        /\ (iouIn.a = iouIn.b /\ Cells(iouIn.a) = {}) => iouRet.n = 0
        /\ Cells(iouIn.a) \cap Cells(iouIn.b) = {} => iouRet.n = 0

C10_Witness ==
    /\ iouPc = "done"
    /\ iouIn.a = iouIn.b
    /\ iouIn.a = [X1 |-> 0, Y1 |-> 0, X2 |-> MaxCoord, Y2 |-> 1]
    /\ iouRet.n = iouRet.d

\* the anchors (from 1) of an output of exactly RecWidth-wide records whose
\* objectness x class score reaches scoreThreshold
Scoring(outputs) ==
    {k \in 1..Len(Grids(InputSize)) :
        outputs[(k - 1) * RecWidth + 5] * outputs[(k - 1) * RecWidth + 6] >= DetScoreThr * Milli}

Clamp(v, lo, hi) == IF v < lo THEN lo ELSE IF v > hi THEN hi ELSE v

\* the box expected of anchor k: ((o + grid) * stride -/+ exp(o) * stride / 2)
\* over the letterbox ratio, truncated, clipped to the image
ExpectedBox(outputs, k, img) ==
    LET g == Grids(InputSize)[k]
        base == (k - 1) * RecWidth
        cx == (outputs[base + 1] + g.x * Milli) * g.stride
        cy == (outputs[base + 2] + g.y * Milli) * g.stride
        w == ExpMilli(outputs[base + 3]) * g.stride
        h == ExpMilli(outputs[base + 4]) * g.stride
        den == 2 * Milli * InputSize
        m == Max2(img.w, img.h)
    IN  [X1 |-> Clamp(TruncDiv((2 * cx - w) * m, den), 0, img.w),
         Y1 |-> Clamp(TruncDiv((2 * cy - h) * m, den), 0, img.h),
         X2 |-> Clamp(TruncDiv((2 * cx + w) * m, den), 0, img.w),
         Y2 |-> Clamp(TruncDiv((2 * cy + h) * m, den), 0, img.h)]

\* C11: for an output in which exactly one anchor has objectness x class
\* score >= scoreThreshold and every other anchor scores zero, Detection
\* returns exactly one box, with the corners
\* ((ox + grid_x) * stride -/+ exp(ow) * stride / 2, ...) divided by the
\* letterbox ratio, truncated to integers and clipped to the image.
C11_SingleAnchorBox ==
    (/\ detPc = "done" /\ isDetMode /\ detIn.outcome = "ok"
     /\ Len(detIn.tensor) = RecWidth * Len(Grids(InputSize))
     /\ Cardinality(Scoring(detIn.tensor)) = 1)
    => /\ ~detRet.panic /\ detRet.err = "nil"
       /\ detRet.boxes =
              <<ExpectedBox(detIn.tensor, CHOOSE k \in Scoring(detIn.tensor) : TRUE, detIn.img)>>

-----------------------------------------------------------------------------
(* Claims about the edge detector *)

Pixels(img) == (0..(Len(img[1]) - 1)) \X (0..(Len(img) - 1))

OnBorder(c, img) ==
    c[1] = 0 \/ c[2] = 0 \/ c[1] = Len(img[1]) - 1 \/ c[2] = Len(img) - 1

\* C12: each pixel of the edge map cannyEdgeDetect returns is 0 or 255,
\* and every pixel of the outermost ring is 0.
C12_BinaryZeroBorder ==
    cannyPc = "done" =>
        \A c \in Pixels(cannyIn) :
            /\ cannyResult[c[2]][c[1]] \in {0, 255}
            /\ OnBorder(c, cannyIn) => cannyResult[c[2]][c[1]] = 0

C12_Witness ==
    /\ cannyPc = "done"
    /\ Len(cannyIn) = MaxRows
    /\ \E c, d \in Pixels(cannyIn) :
          /\ cannyResult[c[2]][c[1]] = 255
          /\ ~OnBorder(d, cannyIn) /\ cannyResult[d[2]][d[1]] = 0 /\ cannySup[d[2]][d[1]] > 0

\* the pixels at or above highThreshold, and those in [lowThreshold, highThreshold)
StrongPixels == {c \in Pixels(cannyIn) : cannySup[c[2]][c[1]] >= CannyHigh}

WeakPixels ==
    {c \in Pixels(cannyIn) :
        cannySup[c[2]][c[1]] >= CannyLow /\ cannySup[c[2]][c[1]] < CannyHigh}

Adjacent(c, d) == c # d /\ Abs(c[1] - d[1]) <= 1 /\ Abs(c[2] - d[2]) <= 1

\* synchronous passes to a fixpoint: each pass adds every weak pixel with
\* a neighbour in the set before the pass
RECURSIVE Linked(_, _)
Linked(S, W) ==
    LET more == {c \in W \ S : \E d \in S : Adjacent(c, d)}
    IN  IF more = {} THEN S ELSE Linked(S \cup more, W)

\* C13: after hysteresis the edge map is 255 exactly at the pixels whose
\* suppressed magnitude is >= highThreshold, or is in [lowThreshold,
\* highThreshold) and linked to such a pixel by a chain of 8-neighbouring
\* weak pixels, and 0 elsewhere; the in-place passes give the map that
\* synchronous passes to a fixpoint give.
C13_Hysteresis ==
    cannyPc = "done" =>
        \A c \in Pixels(cannyIn) :
            cannyResult[c[2]][c[1]] = (IF c \in Linked(StrongPixels, WeakPixels) THEN 255 ELSE 0)

C13_Witness ==
    /\ cannyPc = "done"
    /\ cannyPasses = 3
    /\ \E c \in WeakPixels :
          /\ cannyResult[c[2]][c[1]] = 255
          /\ \A e \in StrongPixels : ~Adjacent(c, e)

-----------------------------------------------------------------------------
(* Claims about the template matcher *)

Uniform(vals) == \A i, j \in 1..Len(vals) : vals[i] = vals[j]

TplLarger ==
    \/ Len(tmIn.template[1]) > Len(tmIn.background[1])
    \/ Len(tmIn.template) > Len(tmIn.background)

\* the window positions of the call, and the pixels of the window at p
TmPositions ==
    {[X |-> x, Y |-> y] :
        x \in 0..(Len(tmIn.background[1]) - Len(tmIn.template[1])),
        y \in 0..(Len(tmIn.background) - Len(tmIn.template))}

TmWindow(p) ==
    Window(tmIn.background, p.X, p.Y, Len(tmIn.template[1]), Len(tmIn.template))

\* C14: templateMatchRGB always returns a point; a template wider or
\* taller than the background gives the origin; a template of standard
\* deviation below 1 gives the origin; a window of standard deviation
\* below 1 is skipped, so it is returned only as the origin left in
\* place when every window is skipped.
C14_DegenerateGeometry ==
    tmPc = "done" =>
        /\ tmRet \in [X : Nat, Y : Nat]
        /\ TplLarger => tmRet = Origin
        /\ (~TplLarger /\ Uniform(Flatten(tmIn.template))) => tmRet = Origin
        /\ (~TplLarger /\ ~Uniform(Flatten(tmIn.template))) =>
              /\ tmRet \in TmPositions
              /\ Uniform(TmWindow(tmRet)) =>
                    (tmRet = Origin /\ \A p \in TmPositions : Uniform(TmWindow(p)))

C14_Witness ==
    /\ tmPc = "done"
    /\ ~TplLarger /\ ~Uniform(Flatten(tmIn.template))
    /\ Uniform(TmWindow(Origin))
    /\ tmRet # Origin

\* the positions at which the template is an exact crop of the background
CropsAt == {p \in TmPositions : TmWindow(p) = Flatten(tmIn.template)}

\* C15 as claimed: for every (x0, y0) at which the template is an exact
\* crop of the background, templateMatchRGB returns (x0, y0).
C15_CropAsClaimed ==
    (tmPc = "done" /\ ~TplLarger) => \A p \in CropsAt : tmRet = p

\* C15 as amended: when the template is an exact crop of the background
\* and its pixels are not all equal, templateMatchRGB returns the first
\* position, in row-major order, at which it is a crop; for a template
\* of equal pixels it returns the origin.
C15_FirstCrop ==
    (tmPc = "done" /\ ~TplLarger /\ CropsAt # {}) =>
        IF Uniform(Flatten(tmIn.template)) THEN tmRet = Origin
        ELSE tmRet \in CropsAt /\ \A p \in CropsAt \ {tmRet} : Earlier(tmRet, p)

C15_Witness ==
    /\ tmPc = "done" /\ ~TplLarger
    /\ ~Uniform(Flatten(tmIn.template))
    /\ Cardinality(CropsAt) = 2
    /\ tmRet \in CropsAt /\ tmRet # Origin

-----------------------------------------------------------------------------
(* Claims about SlideMatch *)

\* C16: when SlideMatch is called with simpleTarget = false and the
\* extraction of the non-transparent region fails, it calls itself
\* exactly once more, on the whole template image (TargetX = TargetY = 0,
\* the box as large as the whole image), and the extraction error is not
\* returned; an error is returned only when an image does not decode.
C16_FallbackOnce ==
    smPc = "done" =>
        /\ (smCalls[1] = FALSE /\ smExtract.err # "nil") =>
              /\ smCalls = <<FALSE, TRUE>>
              /\ smRet.err \in {"nil", "decodeTarget", "decodeBackground"}
              /\ (smIn.target.ok /\ smIn.background.ok) =>
                    /\ smRet.err = "nil"
                    /\ smRet.res.TargetX = 0 /\ smRet.res.TargetY = 0
                    /\ smRet.res.Target[3] - smRet.res.Target[1] = Len(smIn.target.grey[1])
                    /\ smRet.res.Target[4] - smRet.res.Target[2] = Len(smIn.target.grey)
        /\ smRet.err # "nil" => (~smIn.target.ok \/ ~smIn.background.ok)
        /\ Len(smCalls) <= 2

C16_Witness ==
    /\ smPc = "done"
    /\ smCalls = <<FALSE, TRUE>>
    /\ smIn.target.ok /\ Opaque(smIn.target) # {}
    /\ smExtract.err = "region"
    /\ smRet.err = "nil" /\ smRet.res.TargetX = 0

-----------------------------------------------------------------------------
(* Claims about SlideComparison *)

\* the call returned a result, not an error
GapDone == gapPc = "done" /\ gapRet.err = "nil"

\* a pixel of the difference image is non-black iff some channel of it is
\* above 80
NonBlack(x, y) == \E c \in 1..3 : gapDiff[x + 1][y + 1][c] > 80

\* the number of non-black pixels of column x
NonBlackCount(x) == Cardinality({y \in 0..(Len(gapDiff[x + 1]) - 1) : NonBlack(x, y)})

\* the columns with at least 5 non-black pixels
GapColumnsOf == {x \in 0..(Len(gapDiff) - 1) : NonBlackCount(x) >= 5}

\* C17: findGapPython scans the columns from the left and reports as X the
\* index of the leftmost column with at least 5 non-black pixels, plus 2;
\* the columns to the right of it are not examined; a pixel is non-black
\* iff some channel's absolute difference is strictly above 80.
C17_FirstGapColumn ==
    (GapDone /\ GapColumnsOf # {}) =>
        LET x0 == SetMin(GapColumnsOf)
        IN  /\ gapRet.res.Target[1] = x0 + 2
            /\ gapScan.scanned = [k \in 1..(x0 + 1) |-> k - 1]

\* C17 witness: the gap column has exactly 5 non-black pixels, it is not the
\* first column, a column to its right has 5 as well, and some pixel of the
\* columns examined differs from the target by exactly 80
C17_Witness ==
    /\ GapDone
    /\ \E x0 \in GapColumnsOf :
          /\ x0 = SetMin(GapColumnsOf)
          /\ x0 > 0
          /\ NonBlackCount(x0) = 5
          /\ \E x1 \in GapColumnsOf : x1 > x0
          /\ \E x \in 0..x0, y \in 0..(GapRows - 1) : gapDiff[x + 1][y + 1][1] = 80
          /\ gapRet.res.Target[1] = x0 + 2

\* C18, as claimed: when no column has at least 5 non-black pixels the
\* point reported is (0, 0).
C18_NoGapIsOrigin ==
    (GapDone /\ GapColumnsOf = {}) => gapRet.res.Target = <<0, 0>>

\* the non-black pixels of the columns examined, and the first of them in
\* the column-major scan
Met == {q \in (0..(Len(gapDiff) - 1)) \X (0..(GapRows - 1)) :
           /\ \E k \in 1..Len(gapScan.scanned) : gapScan.scanned[k] = q[1]
           /\ NonBlack(q[1], q[2])}

FirstMet == CHOOSE q \in Met : \A r \in Met : q[1] < r[1] \/ (q[1] = r[1] /\ q[2] <= r[2])

\* C19, as claimed: the row reported is the row of the first non-black
\* pixel met in the column-major scan, captured exactly once and never
\* overwritten by a pixel of a later column.
C19_FirstRowOnce ==
    (GapDone /\ Met # {}) =>
        /\ gapRet.res.Target[2] = FirstMet[2]
        /\ gapScan.captures = <<FirstMet>>

-----------------------------------------------------------------------------
(* Claims about ClassificationProbability *)

\* the call returned a result, for an output of batch size 1 (one image is
\* sent) with as many classes as the instance's charset has symbols
ProbDone ==
    /\ probPc = "done" /\ probRet.err = "nil" /\ ~probRet.panic
    /\ probIn.tensor.shape[2] = 1
    /\ probIn.tensor.shape[3] = Len(charsets)

\* the scores the decoder scanned at a timestep, in the order scanned: those
\* at the allowed indices below numClasses when a range is set, else all
ScannedScores(step) ==
    LET sh == probIn.tensor.shape
        at(c) == probIn.tensor.data[Offset(sh, step) + c + 1]
        below == SelectSeq(allowedIndices.elems, LAMBDA c : c < sh[3])
    IN  IF Len(allowedIndices.elems) > 0
        THEN [i \in 1..Len(below) |-> at(below[i])]
        ELSE [i \in 1..sh[3] |-> at(i - 1)]

\* C20, as claimed: the probability matrix has one row per timestep, each
\* row has one entry per symbol of the charset returned with it (C entries
\* when no range is set, |allowed| when one is), and each row is the softmax
\* of the scores the decoder scanned at that timestep.
C20_RowsMatchCharset ==
    ProbDone =>
        LET res == probRet.res
        IN  /\ Len(res.Probability) = probIn.tensor.shape[1]
            /\ Len(res.Charsets) = (IF Len(allowedIndices.elems) > 0
                                    THEN Len(allowedIndices.elems) ELSE Len(charsets))
            /\ \A k \in 1..Len(res.Probability) :
                  /\ Len(res.Probability[k]) = Len(res.Charsets)
                  /\ res.Probability[k] = softmax(ScannedScores(k - 1))

-----------------------------------------------------------------------------
(* Claims about softmax *)

\* the first index (from 1) at which a row is maximal
ArgMax(r) == CHOOSE i \in 1..Len(r) :
                 /\ \A j \in 1..Len(r) : r[i] >= r[j]
                 /\ \A j \in 1..(i - 1) : r[j] < r[i]

-----------------------------------------------------------------------------
(* Claims about demoPostprocess *)

\* the number of cells of a stride for an input of the given size
CellsOf(stride, size) == (size \div stride) * (size \div stride)

\* anchor i (from 0) by the claim: the strides 8, 16, 32 in that order, the
\* cells of each row by row
AnchorAt(i, size) ==
    LET n8 == CellsOf(8, size)
        n16 == CellsOf(16, size)
        stride == IF i < n8 THEN 8 ELSE IF i < n8 + n16 THEN 16 ELSE 32
        k == IF i < n8 THEN i ELSE IF i < n8 + n16 THEN i - n8 ELSE i - n8 - n16
    IN  [stride |-> stride, x |-> k % (size \div stride), y |-> k \div (size \div stride)]

\* e^0 = 1, e^0.5 = 1.649 and e^1 = 2.718, in 1/1000
ExpOf(v) == IF v = 0 THEN 1000 ELSE IF v = 500 THEN 1649 ELSE 2718

\* C24: demoPostprocess makes the anchors of the strides 8, 16, 32 in that
\* order, floor(size/stride)^2 of each with y outer and x inner (3549 for
\* size 416), and decodes anchor i from offset i*(5+K) as
\* cx = (ox+grid_x)*stride, cy = (oy+grid_y)*stride, w = exp(ow)*stride,
\* h = exp(oh)*stride, objectness and class scores unchanged.
C24_AnchorsDecoded ==
    postPc = "done" =>
        LET size == postIn.imgSize
            N == CellsOf(8, size) + CellsOf(16, size) + CellsOf(32, size)
            K == Len(postIn.outputs) \div N - 5
            out == postIn.outputs
        IN  /\ ~postRet.panic
            /\ Len(postRet.predictions) = N
            /\ CellsOf(8, 416) + CellsOf(16, 416) + CellsOf(32, 416) = 3549
            /\ \A i \in 0..(N - 1) :
                  LET a == AnchorAt(i, size)
                      o == i * (5 + K)
                      p == postRet.predictions[i + 1]
                  IN  /\ p.cx = (out[o + 1] + a.x * 1000) * a.stride
                      /\ p.cy = (out[o + 2] + a.y * 1000) * a.stride
                      /\ p.w = ExpOf(out[o + 3]) * a.stride
                      /\ p.h = ExpOf(out[o + 4]) * a.stride
                      /\ p.obj = out[o + 5]
                      /\ p.cls = [j \in 1..K |-> out[o + 5 + j]]

\* C24 witness: a tensor of two classes whose record at the one anchor of
\* stride 32 differs from the others has been decoded
C24_Witness ==
    /\ postPc = "done"
    /\ Len(postRet.predictions) = 21
    /\ Len(postRet.predictions[21].cls) = 2
    /\ postRet.predictions[21].cx = 32000
    /\ postRet.predictions[20].cx # 32000
    /\ postRet.predictions[2].cx = 12000 /\ postRet.predictions[2].cy = 4000

-----------------------------------------------------------------------------
(* Claims about suppression *)

\* objectness x the largest class score of prediction i (from 1)
AnchorScore(i) == nmsIn.preds[i].obj * SetMax(Range(nmsIn.preds[i].cls))

\* the anchors whose score is at least scoreThreshold
Passing == {i \in 1..Len(nmsIn.preds) : AnchorScore(i) >= nmsIn.scoreThr * Milli}

\* the anchors whose boxes were returned
Returned == {nmsDets[nmsKept[k]].src + 1 : k \in 1..Len(nmsKept)}

AnchorBox(i) == PredBox(nmsIn.preds[i], nmsIn.ratio, nmsIn.origW, nmsIn.origH)

\* the class of an anchor: the first class with the largest score
AnchorClass(i) ==
    CHOOSE c \in 1..Len(nmsIn.preds[i].cls) :
        /\ nmsIn.preds[i].cls[c] = SetMax(Range(nmsIn.preds[i].cls))
        /\ \A b \in 1..(c - 1) : nmsIn.preds[i].cls[b] < nmsIn.preds[i].cls[c]

\* anchor r was returned and covers anchor i: IoU above nmsThreshold and a
\* score at least as large
Covers(r, i) ==
    /\ r \in Returned
    /\ IoUAbove(computeIoU(AnchorBox(r), AnchorBox(i)), nmsIn.nmsThr)
    /\ AnchorScore(r) >= AnchorScore(i)

-----------------------------------------------------------------------------
(* Claims about the termination of edge linking *)

\* the pixels that are weak when the linking loop starts
WeakAtStart == {c \in Pixels(cannyIn) : Classify(cannySup, Len(cannyIn[1]), Len(cannyIn),
                                                  CannyLow, CannyHigh).edge[c[2]][c[1]] = 1}

\* a pass of the linking loop: no pixel is demoted, and a pass after which
\* the loop goes on has promoted a weak pixel to strong
PassPromotes ==
    cannyPc = "linking" =>
        /\ \A c \in Pixels(cannyIn) :
              /\ cannyEdge'[c[2]][c[1]] >= cannyEdge[c[2]][c[1]]
              /\ cannyResult'[c[2]][c[1]] >= cannyResult[c[2]][c[1]]
        /\ cannyPc' = "linking" =>
              \E c \in Pixels(cannyIn) : cannyEdge[c[2]][c[1]] = 1 /\ cannyEdge'[c[2]][c[1]] = 2

\* C26: the edge-linking loop of cannyEdgeDetect terminates for every image:
\* every pass that sets changed promotes at least one weak pixel, no pixel
\* is ever demoted, and the loop ends after at most (number of weak pixels
\* + 1) passes.
C26_LinkingTerminates ==
    /\ <>(cannyPc = "done")
    /\ [](cannyPc \in {"linking", "done"} => cannyPasses <= Cardinality(WeakAtStart) + 1)
    /\ [][PassPromotes]_vars

\* C26 witness: the loop has ended after two promoting passes and the pass
\* that changed nothing, every weak pixel promoted
C26_Witness ==
    /\ cannyPc = "done"
    /\ cannyPasses = 3
    /\ Cardinality(WeakAtStart) >= 2
    /\ \A c \in WeakAtStart : cannyEdge[c[2]][c[1]] = 2

-----------------------------------------------------------------------------
(* Claims about getTarget *)

\* C27: when getTarget succeeds, (startX, startY) is the minimum x and the
\* minimum y over the pixels with alpha > 0 and the cropped raster holds
\* every such pixel, those of the right-most column and of the bottom row
\* included; it fails only when no pixel has alpha > 0.
C27_BoundingBox ==
    (smExtract # <<>> /\ smIn.target.ok) =>
        IF smExtract.err = "nil"
        THEN /\ Opaque(smIn.target) # {}
             /\ smExtract.startX = SetMin({c[1] : c \in Opaque(smIn.target)})
             /\ smExtract.startY = SetMin({c[2] : c \in Opaque(smIn.target)})
             /\ \A c \in Opaque(smIn.target) :
                   /\ c[1] - smExtract.startX < Len(smExtract.cropped.alpha[1])
                   /\ c[2] - smExtract.startY < Len(smExtract.cropped.alpha)
        ELSE Opaque(smIn.target) = {}

-----------------------------------------------------------------------------
(* Claims about New, Close and the modes *)

\* C28: across any sequence of New calls the runtime environment is
\* initialised at most once, and if that initialisation failed, every New
\* call, the first and all later ones, returns an initialisation error
\* instead of an instance.
C28_InitOnceOrError ==
    /\ envInits <= 1
    /\ envErr => \A k \in 1..Len(newRets) : newRets[k].err = "init" /\ newRets[k].inst = 0

\* C29: after any sequence of Close calls on an instance no session or
\* session options object has been destroyed twice, and no inference call
\* runs on a destroyed session.
C29_DestroyedOnce ==
    /\ \A i \in 1..Len(insts) : \A f \in Resources : insts[i][f].destroyed <= 1
    /\ opRet # <<>> => opRet.ran # "destroyed"

\* C30: a method called on an instance whose mode does not support it
\* returns an error without running inference: Detection on an instance
\* not in detection mode, Classification and ClassificationProbability on
\* an instance that holds no OCR session; no missing session is
\* dereferenced.
C30_ModeChecked ==
    (opRet # <<>> /\ opRet.op # "Close") =>
        /\ opRet.ran # "nil"
        /\ (opRet.op = "Detection" /\ ~insts[opRet.inst].isDetMode) => opRet.check = "mode"
        /\ (opRet.op # "Detection" /\ insts[opRet.inst].session.nil) => opRet.check = "mode"

-----------------------------------------------------------------------------
(* Claims about OcrPool *)

\* the goroutines that hold instance k
Holders(k) == {w \in DOMAIN workers : workers[w].ocr = k}

\* the places of the buffer that hold instance k
Places(k) == {n \in DOMAIN poolChan : poolChan[n] = k}

\* a step in which a goroutine comes to hold an instance: the buffer was
\* not empty and the instance was taken from it
TakenFromPool ==
    \A w \in DOMAIN workers :
        (workers[w].ocr = 0 /\ workers'[w].ocr # 0) =>
            /\ Len(poolChan) > 0
            /\ workers'[w].ocr = Head(poolChan)
            /\ Len(poolChan') = Len(poolChan) - 1

\* C23: with an OcrPool of size N used by goroutines that each Get, use and
\* Put: each instance is in the pool or held by exactly one goroutine, never
\* by two; the instances in the pool and those held number N; and a Get on
\* an empty pool blocks until a holder Puts.
C23_PoolExclusive ==
    /\ [](poolPc = "run" =>
            /\ \A k \in 1..PoolSize : Cardinality(Places(k)) + Cardinality(Holders(k)) = 1
            /\ Len(poolChan) + Cardinality({w \in DOMAIN workers : workers[w].ocr # 0}) = PoolSize
            /\ \A w \in DOMAIN workers : workers[w].pc \in {"use", "put"} <=> workers[w].ocr # 0)
    /\ [][TakenFromPool]_vars

\* C23 witness: the pool is empty, every instance is held by one goroutine,
\* and a goroutine that has put one back before waits in Get
C23_Witness ==
    /\ poolPc = "run"
    /\ poolChan = <<>>
    /\ \A k \in 1..PoolSize : Cardinality(Holders(k)) = 1
    /\ \E w \in DOMAIN workers : workers[w].pc = "get" /\ workers[w].j > 0

-----------------------------------------------------------------------------
(* Claims about concurrent use *)

\* the results of goroutine p when it runs alone from the start
Alone(p) == ResultsOf(p, concIn, LocalOf(p, concHeap0))

====
